---- MODULE Spec2Model ----
(***************************************************************************)
(* A model of the textbook-assistant backend: the chunker                  *)
(* (services/embedding_service.py and the root embed_content.py script),   *)
(* the embedding index client on top of the vector store, and the          *)
(* retrieval-augmented answerer (services/rag_service.py, routes/chat.py), *)
(* the translation cache (services/translation_service.py), the            *)
(* personalization service, the start of the web process (main.py) and the *)
(* batch ingestion job (scripts/embed_content.py).                         *)
(*                                                                         *)
(* Strings of the program are sequences of one-character strings, indexed  *)
(* from 1 in TLA+ and from 0 in Python; every operator that takes or       *)
(* returns a position uses Python's 0-based positions.                     *)
(***************************************************************************)
EXTENDS Integers, Sequences, FiniteSets, TLC

VARIABLES
    \* ---- chunk_text: one call, run iteration by iteration
    impl,          \* "service": EmbeddingService.chunk_text, "script": embed_content.chunk_text
    text,          \* the argument text
    chunk_size,    \* the argument chunk_size
    overlap,       \* the argument overlap
    start,         \* the local start
    chunks,        \* the local list chunks
    windows,       \* the slices text[start:end] taken so far, one record per iteration
    chunk_pc,      \* "idle", "loop" (inside or before the while), "done" (returned)
    \* ---- the vector store (Qdrant)
    collections,   \* the names of the collections that exist
    points,        \* the points stored, each with its collection, id and payload
    \* ---- EmbeddingService: one embed_content call, one search_similar call,
    \* one delete_chapter_embeddings call
    embed_job,     \* the embed_content call in progress, or its outcome
    search_out,    \* the search_similar call that has just ended, until its caller takes it
    delete_out,    \* the delete_chapter_embeddings call that has just ended, likewise
    delete_returned, \* chapters whose delete call has returned, not upserted to since
    \* ---- RAGService.answer_with_context, called directly or by POST /query
    rag,           \* the call in progress, or its outcome until its caller takes it
    \* ---- the root batch script embed_content.py
    script,        \* embed_documents: where it is, all_chunks, i, the pending points
    next_uuid,     \* how many ids uuid.uuid4() has handed out
    \* ---- the translation cache (table translation_cache) and TranslationService
    cache,         \* the rows of translation_cache
    next_row_id,   \* the next value of the autoincrement column id
    now,           \* datetime.utcnow(), in days
    calls,         \* per worker process, its translate_content call
    purge_out,     \* the clear_cache call that has just ended, until its caller takes it
    purged,        \* the hashes a clear_cache deleted, not inserted since
    purge_seen,    \* the workers whose call was past its lookup when a clear_cache ran
    \* ---- PersonalizationService: one call
    pers,          \* the call in progress, or its outcome until its caller takes it
    \* ---- the start of the web process (main.py) and its routes
    boot,          \* the environment, how far the import of main has come, the last request
    \* ---- scripts/embed_content.py: embed_all_chapters
    batch,         \* the run: the files found, the loop position, the counters
    \* ---- TranslationService.translate_batch: one call
    tbatch,        \* the call: its arguments, the loop position, the translations so far
    \* ---- routes/auth.py on the tables users and user_sessions
    users,         \* the rows of users
    sessions,      \* the rows of user_sessions
    clock,         \* datetime.utcnow(), in days
    verify,        \* the verify_token call in progress, or its outcome
    auth_out,      \* the signup, signin or signout call that has just ended
    invalidated,   \* the tokens a signout or an expiry check has invalidated
    \* ---- routes/progress.py on the table user_progress
    progress,      \* the rows of user_progress
    pcall,         \* each worker's update_progress call
    applied,       \* per key, the seconds of the updates committed so far
    overlapped     \* whether two update_progress calls have run at the same time

chunkVars == <<impl, text, chunk_size, overlap, start, chunks, windows, chunk_pc>>
storeVars == <<collections, points>>
indexVars == <<embed_job, search_out, delete_out, delete_returned>>
ragVars == <<rag>>
scriptVars == <<script, next_uuid>>
cacheVars == <<cache, next_row_id, now, calls, purge_out, purged, purge_seen>>
persVars == <<pers>>
bootVars == <<boot>>
batchVars == <<batch>>
tbatchVars == <<tbatch>>
authVars == <<users, sessions, clock, verify, auth_out, invalidated>>
progressVars == <<progress, pcall, applied, overlapped>>

vars == <<chunkVars, storeVars, indexVars, ragVars, scriptVars,
          cacheVars, persVars, bootVars, batchVars, tbatchVars, authVars, progressVars>>

\* What the steps of one component leave alone.
otherThanChunk == <<storeVars, indexVars, ragVars, scriptVars,
                    cacheVars, persVars, bootVars, batchVars, tbatchVars, authVars, progressVars>>
otherThanIndex == <<chunkVars, ragVars, scriptVars, cacheVars, persVars, bootVars, batchVars,
                     tbatchVars, authVars, progressVars>>
otherThanRag == <<chunkVars, storeVars, indexVars, scriptVars,
                  cacheVars, persVars, bootVars, batchVars, tbatchVars, authVars, progressVars>>
otherThanScript == <<chunkVars, indexVars, ragVars, cacheVars, persVars, bootVars, batchVars,
                      tbatchVars, authVars, progressVars>>
otherThanCache == <<chunkVars, storeVars, indexVars, ragVars, scriptVars,
                    persVars, bootVars, batchVars, tbatchVars, authVars, progressVars>>
otherThanPers == <<chunkVars, storeVars, indexVars, ragVars, scriptVars,
                   cacheVars, bootVars, batchVars, tbatchVars, authVars, progressVars>>
otherThanBoot == <<chunkVars, storeVars, indexVars, ragVars, scriptVars,
                   cacheVars, persVars, batchVars, tbatchVars, authVars, progressVars>>
otherThanBootAndStore == <<chunkVars, indexVars, ragVars, scriptVars,
                           cacheVars, persVars, batchVars, tbatchVars, authVars, progressVars>>
otherThanBatch == <<chunkVars, indexVars, ragVars, scriptVars, cacheVars, persVars, bootVars,
                     tbatchVars, authVars, progressVars>>
otherThanCacheAndTBatch == <<chunkVars, storeVars, indexVars, ragVars, scriptVars,
                             persVars, bootVars, batchVars, authVars, progressVars>>
otherThanAuth == <<chunkVars, storeVars, indexVars, ragVars, scriptVars,
                   cacheVars, persVars, bootVars, batchVars, tbatchVars, progressVars>>
otherThanProgress == <<chunkVars, storeVars, indexVars, ragVars, scriptVars,
                       cacheVars, persVars, bootVars, batchVars, tbatchVars,
                       authVars>>

----------------------------------------------------------------------------
(* Bounds of the model.                                                     *)

MaxTextLen == 6
MaxChunkSize == 5
MaxOverlap == 5

\* No returning call of chunk_text takes more than len(text) iterations (a
\* window that ends before the end of the text is followed by another one only
\* from a start below len(text)), so this cap cuts only calls that never return.
MaxIter == MaxTextLen + 2

Chars == {"a", ".", " "}
Whitespace == {" "}

Texts == UNION {[1..n -> Chars] : n \in 0..MaxTextLen}

Max(a, b) == IF a >= b THEN a ELSE b
Min(a, b) == IF a <= b THEN a ELSE b

----------------------------------------------------------------------------
(* Python's str operations, as chunk_text uses them.                        *)

\* A slice bound, as Python normalises it for a string of length n: a negative
\* bound counts from the end, and the result is clamped to 0..n.
SliceIndex(i, n) == IF i < 0 THEN Max(i + n, 0) ELSE Min(i, n)

\* s[lo:hi]
Slice(s, lo, hi) ==
    LET a == SliceIndex(lo, Len(s))
        b == SliceIndex(hi, Len(s))
    IN  IF a >= b THEN <<>> ELSE SubSeq(s, a + 1, b)

\* s.rfind('. ', lo, hi): the highest position p with lo <= p, p + 2 <= hi (both
\* normalised) where '. ' starts, or -1.
RFindSentence(s, lo, hi) ==
    LET a == SliceIndex(lo, Len(s))
        b == SliceIndex(hi, Len(s))
        found == {p \in a..(b - 2) : s[p + 1] = "." /\ s[p + 2] = " "}
    IN  IF found = {} THEN -1 ELSE CHOOSE p \in found : \A q \in found : q <= p

\* s.strip()
Strip(s) ==
    LET solid == {i \in 1..Len(s) : s[i] \notin Whitespace}
    IN  IF solid = {} THEN <<>>
        ELSE SubSeq(s, CHOOSE i \in solid : \A j \in solid : i <= j,
                       CHOOSE i \in solid : \A j \in solid : j <= i)

----------------------------------------------------------------------------
(* chunk_text, one iteration of its while loop.                             *)

\* end = start + chunk_size
WindowEndFar(st) == st + chunk_size + 1
WindowEnd(st) == st + chunk_size

\* EmbeddingService.chunk_text: the end of the window after the sentence break.
\* last_period is a position inside chunk = text[start:end].
ServiceEnd(st) ==
    LET end == WindowEnd(st)
        chunk == Slice(text, st, end)
        last_period == RFindSentence(chunk, 0, Len(chunk))
    IN  IF end < Len(text) /\ last_period > chunk_size \div 2
        THEN st + last_period + 1
        ELSE end

\* EmbeddingService.chunk_text: the chunk before strip().
ServiceChunk(st) ==
    LET end == WindowEnd(st)
        chunk == Slice(text, st, end)
        last_period == RFindSentence(chunk, 0, Len(chunk))
    IN  IF end < Len(text) /\ last_period > chunk_size \div 2
        THEN Slice(chunk, 0, last_period + 1)
        ELSE chunk

\* embed_content.chunk_text (the batch script): sentence_end is a position of text.
ScriptEnd(st) ==
    LET end == WindowEnd(st)
        sentence_end == RFindSentence(text, st, end)
    IN  IF end < Len(text) /\ sentence_end # -1
                           /\ sentence_end > st + chunk_size \div 2
        THEN sentence_end + 1
        ELSE end

ScriptChunk(st) == Slice(text, st, ScriptEnd(st))

\* start = end - overlap if end < text_length else text_length
NextStartNoJump(end) == end - overlap
NextStart(end) == IF end < Len(text) THEN end - overlap ELSE Len(text)

\* The slice an iteration took: the arguments start and end as the code holds
\* them, and the positions lo..hi-1 of text the untrimmed chunk is made of.
Window(st, end, raw) ==
    [start |-> st, end |-> end,
     lo |-> SliceIndex(st, Len(text)),
     hi |-> SliceIndex(st, Len(text)) + Len(raw)]

\* chunks.append(chunk.strip())
ServiceAppend(cs, raw) == Append(cs, Strip(raw))

\* chunk = text[start:end].strip(); if chunk: chunks.append(chunk)
ScriptAppend(cs, raw) == IF Strip(raw) = <<>> THEN cs ELSE Append(cs, Strip(raw))

ChunkStart ==
    /\ impl \in {"service", "script"}
    /\ text \in Texts
    /\ chunk_size \in 1..MaxChunkSize
    /\ overlap \in 0..MaxOverlap
    /\ start = 0
    /\ chunks = <<>>
    /\ windows = <<>>
    /\ chunk_pc = "loop"

\* One iteration of the while loop of EmbeddingService.chunk_text.
ChunkTextService ==
    /\ chunk_pc = "loop"
    /\ impl = "service"
    /\ start < Len(text)
    /\ Len(windows) < MaxIter
    /\ LET end == ServiceEnd(start)
           raw == ServiceChunk(start)
       IN  /\ chunks' = ServiceAppend(chunks, raw)
           /\ windows' = Append(windows, Window(start, end, raw))
           /\ start' = NextStart(end)
    /\ UNCHANGED <<impl, text, chunk_size, overlap, chunk_pc, otherThanChunk>>

\* One iteration of the while loop of the batch script's chunk_text.
ChunkTextScript ==
    /\ chunk_pc = "loop"
    /\ impl = "script"
    /\ start < Len(text)
    /\ Len(windows) < MaxIter
    /\ LET end == ScriptEnd(start)
           raw == ScriptChunk(start)
       IN  /\ chunks' = ScriptAppend(chunks, raw)
           /\ windows' = Append(windows, Window(start, end, raw))
           /\ start' = NextStart(end)
    /\ UNCHANGED <<impl, text, chunk_size, overlap, chunk_pc, otherThanChunk>>

\* The while condition fails: return chunks.
ChunkTextReturn ==
    /\ chunk_pc = "loop"
    /\ ~(start < Len(text))
    /\ chunk_pc' = "done"
    /\ UNCHANGED <<impl, text, chunk_size, overlap, start, chunks, windows, otherThanChunk>>

----------------------------------------------------------------------------
(* The vector store and the inputs of the index client.                     *)

MaxChunks == 2
MaxStoredChunks == 3
MaxLimit == 2

\* self.collection_name of EmbeddingService, COLLECTION_NAME of the root script
ServiceCollection == "book_content"
ScriptCollection == "physical_ai_textbook"

\* Chapter ids. The empty string is a str like any other to embed_content and
\* delete_chapter_embeddings; None is the default of search_similar's chapter_id.
ChapterIds == {"", "ch1"}
None == "<None>"

\* A content is given by the list of chunks chunk_text returns for it: here n
\* chunks, for each n up to MaxChunks.
Content(n) == [k \in 1..n |-> IF k % 2 = 1 THEN "p" ELSE "q"]
Contents == {Content(n) : n \in 0..MaxChunks}

\* embeddings.create(model, input=chunk).data[0].embedding
Embedding(chunk) == <<"embedding", chunk>>

\* hit.score: the similarity the store reports between the vector of the query
\* and the vector of a point, in units of 0.0001.
Similarity(vector) == IF vector = Embedding("p") THEN 9000 ELSE 9504

\* chapter_title as embed_all_chapters derives it from chapter_id
TitleOf(chapter_id) == <<"Title", chapter_id>>

\* hashlib.md5(f"{metadata['chapter_id']}_{idx}".encode()).hexdigest(): a
\* function of the pair, taken as collision-free.
ContentId(chapter_id, idx) == <<"md5", chapter_id, idx>>

\* The point embed_content builds for chunk idx of chunks.
ServicePoint(chapter_id, chs, idx) ==
    [collection |-> ServiceCollection,
     id |-> ContentId(chapter_id, idx),
     vector |-> Embedding(chs[idx + 1]),
     text |-> chs[idx + 1],
     chapter_id |-> chapter_id,
     chapter_title |-> TitleOf(chapter_id),
     chunk_index |-> idx,
     total_chunks |-> Len(chs)]

\* qdrant_client.upsert(collection_name, points=[pt]): a point with the id of
\* a stored point of the collection replaces it.
Upsert(pts, pt) ==
    {q \in pts : ~(q.collection = pt.collection /\ q.id = pt.id)} \cup {pt}

\* The points a search or a delete with a chapter_id condition selects.
ChapterPoints(pts, coll, chapter_id) ==
    {q \in pts : q.collection = coll /\ q.chapter_id = chapter_id}

PointIds(pts) == {q.id : q \in pts}

\* search_similar: `if chapter_id:` builds the filter, so None and "" search
\* the whole collection.
SearchScope(pts, chapter_id) ==
    IF chapter_id \in {None, ""}
    THEN {q \in pts : q.collection = ServiceCollection}
    ELSE ChapterPoints(pts, ServiceCollection, chapter_id)

\* What qdrant_client.search may answer: at most limit of the points in scope
\* (all of them when there are no more than limit), none twice, each with its
\* score, in the order the store chooses.
StoreSearch(pts, chapter_id, limit) ==
    LET scope == SearchScope(pts, chapter_id)
        n == Min(limit, Cardinality(scope))
    IN  {[i \in 1..n |-> [point |-> f[i], score |-> Similarity(f[i].vector)]] :
            f \in {g \in [1..n -> scope] : \A i, j \in 1..n : g[i] = g[j] => i = j}}

\* search_similar: the dict built for a hit.
ResultOf(hit) ==
    [text |-> hit.point.text,
     chapter_id |-> hit.point.chapter_id,
     chapter_title |-> hit.point.chapter_title,
     chunk_index |-> hit.point.chunk_index,
     score |-> hit.score]

\* search_similar: results, one dict per hit in the order of search_results.
SearchResultsReversed(hits) == [i \in 1..Len(hits) |-> ResultOf(hits[Len(hits) + 1 - i])]
SearchResults(hits) == [i \in 1..Len(hits) |-> ResultOf(hits[i])]

IdleJob == [pc |-> "idle", chapter_id |-> None, chunks |-> <<>>, idx |-> 0, result |-> -1]
NoSearch == [pc |-> "idle", chapter_id |-> None, limit |-> 0, hits |-> <<>>,
             results |-> <<>>, after_delete |-> FALSE]
NoDelete == [pc |-> "idle", chapter_id |-> None, result |-> FALSE]

\* The state once EmbeddingService() has been constructed (routes/chat.py:15):
\* its collection exists.
StoreInit ==
    /\ collections = {ServiceCollection}
    /\ points = {}

IndexInit ==
    /\ embed_job = IdleJob
    /\ search_out = NoSearch
    /\ delete_out = NoDelete
    /\ delete_returned = {}

----------------------------------------------------------------------------
(* EmbeddingService. The outcome of a search or delete call is read by its  *)
(* caller alone, so the model lets the caller take it before any other call *)
(* starts or goes on (NoOutcomePending): the store sees the same calls in   *)
(* the same orders.                                                         *)

NoOutcomePending == search_out.pc = "idle" /\ delete_out.pc = "idle"

\* embed_content up to its loop: chunks = self.chunk_text(content).
EmbedContentStart(content, chapter_id) ==
    /\ NoOutcomePending
    /\ embed_job.pc \in {"idle", "returned", "raised"}
    /\ embed_job' = [pc |-> "loop", chapter_id |-> chapter_id, chunks |-> content,
                     idx |-> 0, result |-> -1]
    /\ UNCHANGED <<storeVars, search_out, delete_out, delete_returned, otherThanIndex>>

\* One iteration of the loop of embed_content: the chunk is embedded and its
\* point upserted.
EmbedChunk ==
    /\ NoOutcomePending
    /\ embed_job.pc = "loop"
    /\ embed_job.idx < Len(embed_job.chunks)
    /\ points' = Upsert(points, ServicePoint(embed_job.chapter_id, embed_job.chunks,
                                             embed_job.idx))
    /\ embed_job' = [embed_job EXCEPT !.idx = @ + 1]
    /\ delete_returned' = delete_returned \ {embed_job.chapter_id}
    /\ UNCHANGED <<collections, search_out, delete_out, otherThanIndex>>

EmbedChunkFailsAndGoesOn ==
    /\ NoOutcomePending
    /\ embed_job.pc = "loop"
    /\ embed_job.idx < Len(embed_job.chunks)
    /\ embed_job' = [embed_job EXCEPT !.idx = @ + 1]
    /\ UNCHANGED <<storeVars, search_out, delete_out, delete_returned, otherThanIndex>>

\* embeddings.create or upsert raises for the chunk: logged and raised again.
EmbedChunkFails ==
    /\ NoOutcomePending
    /\ embed_job.pc = "loop"
    /\ embed_job.idx < Len(embed_job.chunks)
    /\ embed_job' = [embed_job EXCEPT !.pc = "raised"]
    /\ UNCHANGED <<storeVars, search_out, delete_out, delete_returned, otherThanIndex>>

\* The loop is over: return len(chunks).
EmbedContentReturn ==
    /\ NoOutcomePending
    /\ embed_job.pc = "loop"
    /\ embed_job.idx = Len(embed_job.chunks)
    /\ embed_job' = [embed_job EXCEPT !.pc = "returned", !.result = Len(embed_job.chunks)]
    /\ UNCHANGED <<storeVars, search_out, delete_out, delete_returned, otherThanIndex>>

\* search_similar returns the store's hits as its result list.
SearchSimilar(chapter_id, limit) ==
    /\ NoOutcomePending
    /\ \E hits \in StoreSearch(points, chapter_id, limit) :
        search_out' = [pc |-> "returned", chapter_id |-> chapter_id, limit |-> limit,
                       hits |-> hits, results |-> SearchResults(hits),
                       after_delete |-> chapter_id \in delete_returned]
    /\ UNCHANGED <<storeVars, embed_job, delete_out, delete_returned, otherThanIndex>>

\* embeddings.create or qdrant_client.search raises: logged and raised again.
SearchSimilarFails(chapter_id, limit) ==
    /\ NoOutcomePending
    /\ search_out' = [pc |-> "raised", chapter_id |-> chapter_id, limit |-> limit,
                      hits |-> <<>>, results |-> <<>>,
                      after_delete |-> chapter_id \in delete_returned]
    /\ UNCHANGED <<storeVars, embed_job, delete_out, delete_returned, otherThanIndex>>

\* delete_chapter_embeddings: the store deletes the chapter's points; True.
DeleteChapterEmbeddings(chapter_id) ==
    /\ NoOutcomePending
    /\ points' = points \ ChapterPoints(points, ServiceCollection, chapter_id)
    /\ delete_out' = [pc |-> "returned", chapter_id |-> chapter_id, result |-> TRUE]
    /\ delete_returned' = delete_returned \cup {chapter_id}
    /\ UNCHANGED <<collections, embed_job, search_out, otherThanIndex>>

\* delete_chapter_embeddings: qdrant_client.delete raises; the except clause
\* logs the error and returns False.
DeleteChapterEmbeddingsFails(chapter_id) ==
    /\ NoOutcomePending
    /\ delete_out' = [pc |-> "returned", chapter_id |-> chapter_id, result |-> FALSE]
    /\ delete_returned' = delete_returned \cup {chapter_id}
    /\ UNCHANGED <<storeVars, embed_job, search_out, otherThanIndex>>

\* The caller of the search or delete call that has ended goes on with its outcome.
CallerTakesOutcome ==
    /\ ~NoOutcomePending
    /\ search_out' = NoSearch
    /\ delete_out' = NoDelete
    /\ UNCHANGED <<storeVars, embed_job, delete_returned, otherThanIndex>>

IndexNext ==
    \/ \E content \in Contents, c \in ChapterIds : EmbedContentStart(content, c)
    \/ EmbedChunk
    \/ EmbedChunkFails
    \/ EmbedContentReturn
    \/ \E c \in ChapterIds \cup {None}, limit \in 1..MaxLimit : SearchSimilar(c, limit)
    \/ \E c \in ChapterIds \cup {None}, limit \in 1..MaxLimit : SearchSimilarFails(c, limit)
    \/ \E c \in ChapterIds : DeleteChapterEmbeddings(c)
    \/ \E c \in ChapterIds : DeleteChapterEmbeddingsFails(c)
    \/ CallerTakesOutcome

----------------------------------------------------------------------------
(* RAGService.answer_with_context and the POST /query route.                *)

\* limit=5 in chat_query's call of answer_with_context
RouteLimit == 5

FallbackMessage == "I couldn't find relevant information in the textbook to answer your question. Could you please rephrase or ask about a different topic?"
GeneratedAnswer == "<response.choices[0].message.content>"

\* round(doc["score"], 3) on a score in units of 0.0001: the result in units
\* of 0.001, a tie going to the even neighbour.
Round3(score) ==
    LET q == score \div 10
        r == score % 10
    IN  IF r > 5 \/ (r = 5 /\ q % 2 = 1) THEN q + 1 ELSE q

\* `if not context_docs:` returns the fallback; otherwise a response is generated.
AlwaysGenerate(context_docs) == TRUE
NeedsGeneration(context_docs) == context_docs # <<>>

\* chat_query: the sources of the response.
RouteSources(source_docs) ==
    [i \in 1..Len(source_docs) |->
        [chapter |-> source_docs[i].chapter_title,
         chapter_id |-> source_docs[i].chapter_id,
         relevance |-> Round3(source_docs[i].score)]]

IdleRag ==
    [pc |-> "idle", via_route |-> FALSE, chapter_id |-> None, limit |-> 0,
     hits |-> <<>>, context_docs |-> <<>>, answer |-> "", source_docs |-> <<>>,
     gen_calls |-> 0, status |-> 0, sources |-> <<>>]

RagInit == rag = IdleRag

\* The points embed_content stores for a content when it runs to its end.
DocPoints(chapter_id, content) ==
    {ServicePoint(chapter_id, content, idx) : idx \in 0..(Len(content) - 1)}

\* The stores embed_content leaves when it has run to its end once per chapter.
IndexedStores ==
    {UNION {DocPoints(c, Content(n[c])) : c \in ChapterIds} :
        n \in [ChapterIds -> 0..MaxStoredChunks]}

\* What the caller of answer_with_context gets: the tuple, and through the
\* route the ChatResponse (status 200).
Return(r, answer, source_docs) ==
    [r EXCEPT !.pc = "returned", !.answer = answer, !.source_docs = source_docs,
              !.status = IF r.via_route THEN 200 ELSE 0,
              !.sources = IF r.via_route THEN RouteSources(source_docs) ELSE <<>>]

\* An exception leaves answer_with_context; chat_query turns it into HTTP 500.
Raise(r) ==
    [r EXCEPT !.pc = "raised", !.status = IF r.via_route THEN 500 ELSE 0]

\* answer_with_context up to the generation call: search_similar, then the
\* fallback when nothing was found.
AnswerRetrieve(chapter_id, limit, via_route) ==
    /\ rag.pc = "idle"
    /\ \E hits \in StoreSearch(points, chapter_id, limit) :
        LET call == [IdleRag EXCEPT !.via_route = via_route, !.chapter_id = chapter_id,
                                    !.limit = limit, !.hits = hits,
                                    !.context_docs = SearchResults(hits)]
        IN  rag' = IF NeedsGeneration(call.context_docs)
                   THEN [call EXCEPT !.pc = "generate"]
                   ELSE Return(call, FallbackMessage, <<>>)
    /\ UNCHANGED otherThanRag

\* search_similar raises.
AnswerRetrieveFails(chapter_id, limit, via_route) ==
    /\ rag.pc = "idle"
    /\ rag' = Raise([IdleRag EXCEPT !.via_route = via_route, !.chapter_id = chapter_id,
                                    !.limit = limit])
    /\ UNCHANGED otherThanRag

\* generate_response: one chat.completions.create call, which answers.
AnswerGenerate ==
    /\ rag.pc = "generate"
    /\ rag' = Return([rag EXCEPT !.gen_calls = @ + 1], GeneratedAnswer, rag.context_docs)
    /\ UNCHANGED otherThanRag

\* generate_response: the call raises; logged and raised again.
AnswerGenerateFails ==
    /\ rag.pc = "generate"
    /\ rag' = Raise([rag EXCEPT !.gen_calls = @ + 1])
    /\ UNCHANGED otherThanRag

\* The caller (the client of POST /query for a call through the route) goes on
\* with the outcome.
RagCallerTakesOutcome ==
    /\ rag.pc \in {"returned", "raised"}
    /\ rag' = IdleRag
    /\ UNCHANGED otherThanRag

Limits(via_route) == IF via_route THEN {RouteLimit} ELSE 1..MaxLimit

RagNext ==
    \/ \E c \in ChapterIds \cup {None}, via \in BOOLEAN :
         \E limit \in Limits(via) : AnswerRetrieve(c, limit, via)
    \/ \E c \in ChapterIds \cup {None}, via \in BOOLEAN :
         \E limit \in Limits(via) : AnswerRetrieveFails(c, limit, via)
    \/ AnswerGenerate
    \/ AnswerGenerateFails
    \/ RagCallerTakesOutcome

----------------------------------------------------------------------------
(* The root batch script embed_content.py: embed_documents.                 *)

MaxFiles == 1
MaxScriptRuns == 2

\* `len(points) >= 100` in embed_documents
UploadBatchSize == 100

Files == {"intro.md", "ch1.md"}

\* The docs folder: its markdown files, in rglob's order, each with its content.
Trees ==
    {t \in UNION {[1..n -> [file_path : Files, content : Contents]] : n \in 0..MaxFiles} :
        \A i, j \in 1..Len(t) : t[i].file_path = t[j].file_path => i = j}

\* process_markdown_file: the chunk objects of one file.
ChunkObjects(file) ==
    [k \in 1..Len(file.content) |->
        [text |-> file.content[k], title |-> file.file_path,
         file_path |-> file.file_path, chunk_index |-> k - 1,
         total_chunks |-> Len(file.content)]]

\* all_chunks: the chunk objects of every file, in order.
RECURSIVE AllChunks(_)
AllChunks(tree) ==
    IF tree = <<>> THEN <<>>
    ELSE ChunkObjects(Head(tree)) \o AllChunks(Tail(tree))

\* str(uuid.uuid4()): an id no earlier call has returned.
Uuid(n) == <<"uuid4", n>>

\* The PointStruct embed_documents builds for a chunk object.
ScriptPoint(chunk_obj, id) ==
    [collection |-> ScriptCollection, id |-> id, text |-> chunk_obj.text,
     title |-> chunk_obj.title, file_path |-> chunk_obj.file_path,
     chunk_index |-> chunk_obj.chunk_index, total_chunks |-> chunk_obj.total_chunks]

\* qdrant_client.upsert(collection_name, points=pts)
RECURSIVE UpsertAll(_, _)
UpsertAll(stored, pts) ==
    IF pts = <<>> THEN stored ELSE UpsertAll(Upsert(stored, Head(pts)), Tail(pts))

\* `if len(points) >= 100 or i == len(all_chunks) - 1:`
BatchIsDue(pending, i, all_chunks) ==
    Len(pending) >= UploadBatchSize \/ i = Len(all_chunks) - 1

\* Besides the locals of embed_documents: how many runs there were (runs),
\* whether the run before this one went through without an error over the same
\* tree (prev_*), and, at the end of a run that repeats it, the point ids the
\* run before left (rerun, ids_before).
IdleScript ==
    [pc |-> "idle", tree |-> <<>>, all_chunks |-> <<>>, i |-> 0, pending |-> <<>>,
     errors |-> 0, runs |-> 0, reported |-> -1,
     prev_valid |-> FALSE, prev_tree |-> <<>>, prev_ids |-> {},
     rerun |-> FALSE, ids_before |-> {}]

ScriptInit ==
    /\ script = IdleScript
    /\ next_uuid = 0

ScriptPoints(pts) == {q \in pts : q.collection = ScriptCollection}

\* embed_documents up to its embedding loop: create_collection() deletes the
\* collection and creates it again, then the files are read and chunked. With
\* no markdown file the script exits with status 1.
ScriptStart(tree) ==
    /\ script.pc \in {"idle", "done", "aborted"}
    /\ script.runs < MaxScriptRuns
    /\ collections' = collections \cup {ScriptCollection}
    /\ points' = points \ ScriptPoints(points)
    /\ script' = [script EXCEPT !.pc = IF tree = <<>> THEN "aborted" ELSE "loop",
                                !.tree = tree, !.all_chunks = AllChunks(tree),
                                !.i = 0, !.pending = <<>>, !.errors = 0,
                                !.runs = @ + 1, !.reported = -1,
                                !.prev_valid = @ /\ tree # <<>>,
                                !.rerun = FALSE, !.ids_before = {}]
    /\ UNCHANGED <<next_uuid, otherThanScript>>

\* create_collection raises (after delete_collection went through, or not):
\* "Fatal error", exit status 1.
ScriptCreateCollectionFails(dropped) ==
    /\ script.pc \in {"idle", "done", "aborted"}
    /\ script.runs < MaxScriptRuns
    /\ collections' = IF dropped THEN collections \ {ScriptCollection} ELSE collections
    /\ points' = IF dropped THEN points \ ScriptPoints(points) ELSE points
    /\ script' = [script EXCEPT !.pc = "aborted", !.runs = @ + 1, !.reported = -1,
                                !.prev_valid = FALSE, !.rerun = FALSE,
                                !.ids_before = {}]
    /\ UNCHANGED <<next_uuid, otherThanScript>>

\* One iteration of the loop: the chunk is embedded, its point appended, and
\* the pending points are upserted when a batch is due.
ScriptEmbedChunk ==
    /\ script.pc = "loop"
    /\ script.i < Len(script.all_chunks)
    /\ LET pt == ScriptPoint(script.all_chunks[script.i + 1], Uuid(next_uuid))
           pending == Append(script.pending, pt)
           due == BatchIsDue(pending, script.i, script.all_chunks)
       IN  /\ points' = IF due THEN UpsertAll(points, pending) ELSE points
           /\ script' = [script EXCEPT !.pending = IF due THEN <<>> ELSE pending,
                                       !.i = @ + 1]
    /\ next_uuid' = next_uuid + 1
    /\ UNCHANGED <<collections, otherThanScript>>

\* get_embedding raises: "Error embedding chunk", continue.
ScriptGetEmbeddingFails ==
    /\ script.pc = "loop"
    /\ script.i < Len(script.all_chunks)
    /\ script' = [script EXCEPT !.i = @ + 1, !.errors = @ + 1]
    /\ UNCHANGED <<storeVars, next_uuid, otherThanScript>>

\* The upsert of a due batch raises: "Error embedding chunk", continue; the
\* pending points stay pending.
ScriptUpsertFails ==
    /\ script.pc = "loop"
    /\ script.i < Len(script.all_chunks)
    /\ LET pt == ScriptPoint(script.all_chunks[script.i + 1], Uuid(next_uuid))
           pending == Append(script.pending, pt)
       IN  /\ BatchIsDue(pending, script.i, script.all_chunks)
           /\ script' = [script EXCEPT !.pending = pending, !.i = @ + 1,
                                       !.errors = @ + 1]
    /\ next_uuid' = next_uuid + 1
    /\ UNCHANGED <<storeVars, otherThanScript>>

\* The loop is over: the summary "SUCCESS! Embedded {len(all_chunks)} chunks".
ScriptSummary ==
    /\ script.pc = "loop"
    /\ script.i = Len(script.all_chunks)
    /\ LET ids == PointIds(ScriptPoints(points))
           ok == script.errors = 0
           rerun == ok /\ script.prev_valid /\ script.prev_tree = script.tree
       IN  script' = [script EXCEPT !.pc = "done",
                                    !.reported = Len(script.all_chunks),
                                    !.rerun = rerun,
                                    !.ids_before = IF rerun THEN script.prev_ids ELSE {},
                                    !.prev_valid = ok, !.prev_tree = script.tree,
                                    !.prev_ids = ids]
    /\ UNCHANGED <<storeVars, next_uuid, otherThanScript>>

ScriptNext ==
    \/ \E tree \in Trees : ScriptStart(tree)
    \/ \E dropped \in BOOLEAN : ScriptCreateCollectionFails(dropped)
    \/ ScriptEmbedChunk
    \/ ScriptGetEmbeddingFails
    \/ ScriptUpsertFails
    \/ ScriptSummary

----------------------------------------------------------------------------
(* TranslationService on the table translation_cache. Requests are served   *)
(* by worker processes (gunicorn_conf.py: workers); translate_content never *)
(* awaits, so one worker runs one call at a time and calls meet only across *)
(* workers, at the statements that go to the database or to the provider.   *)
(* The outcome of a call is read by its caller alone, so the model lets the *)
(* caller take it before any other call starts or goes on: the table sees   *)
(* the same statements in the same orders.                                  *)

MaxVersions == 2
MaxDays == 1
MaxAge == 1
MaxRows == 2

Workers == {"w1", "w2"}

\* The content and target_lang arguments. TranslateRequest lets only "en" and
\* "ur" through the route; translate_content itself takes any str.
TranslateContents == {"a", "a_b"}
TargetLangs == {"ur", "b_ur"}
TranslateArgs ==
    {<<content, target_lang>> \in TranslateContents \X TargetLangs :
        content = "a" \/ target_lang = "ur"}

\* source_lang: str = "en"
DefaultSourceLang == "en"

\* _get_content_hash: md5 of f"{content}_{target_lang}", md5 taken as
\* collision-free.
HashInput(content, target_lang) == content \o "_" \o target_lang
ContentHash(content, target_lang) == <<"md5", HashInput(content, target_lang)>>

\* lang_map.get(target_lang, target_lang)
LangName(target_lang) ==
    IF target_lang = "en" THEN "English"
    ELSE IF target_lang = "ur" THEN "Urdu"
    ELSE target_lang

\* response.choices[0].message.content: a translation of content into the
\* named language; the provider may word it differently from call to call.
Translation(content, target_lang, version) ==
    <<"translation", content, LangName(target_lang), version>>

NoText == <<>>

\* db.query(TranslationCache).filter(content_hash == h): the rows it selects.
Matching(rows, content_hash) == {r \in rows : r.content_hash = content_hash}

\* .first(): one of the selected rows, or None (here: the empty set).
LookupNothing(rows, content_hash) == {{}}
Lookup(rows, content_hash) ==
    IF Matching(rows, content_hash) = {} THEN {{}}
    ELSE {{r} : r \in Matching(rows, content_hash)}

\* content_hash = Column(..., unique=True): the INSERT of db.commit() goes
\* through only if no row has the hash.
InsertAcceptedAlways(rows, content_hash) == TRUE
InsertAccepted(rows, content_hash) == Matching(rows, content_hash) = {}

\* The TranslationCache row translate_content adds; created_at by its default.
CacheEntry(id, call, created_at) ==
    [id |-> id,
     content_hash |-> call.content_hash,
     source_lang |-> DefaultSourceLang,
     target_lang |-> call.target_lang,
     translated_content |-> call.translated,
     created_at |-> created_at]

\* cached.translated_content of the object the lookup loaded.
TextOnReread(call, rows) ==
    IF \E r \in rows : r \in call.cached
    THEN (CHOOSE r \in call.cached : TRUE).translated_content
    ELSE NoText
CachedText(call, rows) == (CHOOSE r \in call.cached : TRUE).translated_content

\* clear_cache: datetime.utcnow() - timedelta(days=older_than_days), and the
\* filter created_at < cutoff_date.
Cutoff(today, older_than_days) == today - older_than_days
ExpiredOrAtCutoff(row, cutoff_date) == row.created_at <= cutoff_date
Expired(row, cutoff_date) == row.created_at < cutoff_date

IdleCall ==
    [pc |-> "idle", content |-> "", target_lang |-> "", content_hash |-> <<>>,
     cached |-> {}, translated |-> NoText, result |-> NoText, provider_calls |-> 0,
     stored_before |-> {}, after_purge |-> FALSE]

NoPurge == [pc |-> "idle", older_than_days |-> 0, deleted |-> 0]

CacheInit ==
    /\ cache = {}
    /\ next_row_id = 1
    /\ now = 0
    /\ calls = [w \in Workers |-> IdleCall]
    /\ purge_out = NoPurge
    /\ purged = {}
    /\ purge_seen = {}

\* The rows an earlier translate_content(content, target_lang) stored.
StoredFor(rows, content, target_lang) ==
    {r \in rows : /\ r.target_lang = target_lang
                  /\ \E v \in 1..MaxVersions :
                        r.translated_content = Translation(content, target_lang, v)}

NoCacheOutcomePending ==
    /\ purge_out.pc = "idle"
    /\ \A w \in Workers : calls[w].pc \notin {"returned", "raised"}

InFlight(call) == call.pc \in {"hit", "provider", "insert"}

\* translate_content up to `if cached:`: the hash and the cache lookup.
TranslateLookup(w, content, target_lang) ==
    /\ NoCacheOutcomePending
    /\ calls[w].pc = "idle"
    /\ next_row_id <= MaxRows
    /\ LET h == ContentHash(content, target_lang)
       IN  \E found \in Lookup(cache, h) :
              calls' = [calls EXCEPT ![w] =
                  [IdleCall EXCEPT !.pc = IF found # {} THEN "hit" ELSE "provider",
                                   !.content = content, !.target_lang = target_lang,
                                   !.content_hash = h, !.cached = found,
                                   !.stored_before = {r.translated_content :
                                        r \in StoredFor(cache, content, target_lang)},
                                   !.after_purge = h \in purged]]
    /\ purge_seen' = purge_seen \ {w}
    /\ UNCHANGED <<cache, next_row_id, now, purge_out, purged, otherThanCache>>

TranslateReturnCachedTouching(w) ==
    /\ NoCacheOutcomePending
    /\ calls[w].pc = "hit"
    /\ calls' = [calls EXCEPT ![w].pc = "returned",
                              ![w].result = CachedText(calls[w], cache)]
    /\ cache' = {IF r \in calls[w].cached THEN [r EXCEPT !.created_at = now] ELSE r :
                    r \in cache}
    /\ UNCHANGED <<next_row_id, now, purge_out, purged, purge_seen, otherThanCache>>

\* `return cached.translated_content`
TranslateReturnCached(w) ==
    /\ NoCacheOutcomePending
    /\ calls[w].pc = "hit"
    /\ calls' = [calls EXCEPT ![w].pc = "returned",
                              ![w].result = CachedText(calls[w], cache)]
    /\ UNCHANGED <<cache, next_row_id, now, purge_out, purged, purge_seen, otherThanCache>>

\* chat.completions.create answers: translated = its content.
TranslateProvider(w, version) ==
    /\ NoCacheOutcomePending
    /\ calls[w].pc = "provider"
    /\ calls' = [calls EXCEPT ![w].pc = "insert",
                              ![w].translated = Translation(calls[w].content,
                                                            calls[w].target_lang, version),
                              ![w].provider_calls = @ + 1]
    /\ UNCHANGED <<cache, next_row_id, now, purge_out, purged, purge_seen, otherThanCache>>

\* chat.completions.create raises: logged and raised again.
TranslateProviderFails(w) ==
    /\ NoCacheOutcomePending
    /\ calls[w].pc = "provider"
    /\ calls' = [calls EXCEPT ![w].pc = "raised", ![w].provider_calls = @ + 1]
    /\ UNCHANGED <<cache, next_row_id, now, purge_out, purged, purge_seen, otherThanCache>>

\* db.add(cache_entry); db.commit(); return translated. A commit the unique
\* constraint rejects raises IntegrityError, which is logged and raised
\* again; the sequence of id has moved on all the same.
TranslateInsert(w) ==
    /\ NoCacheOutcomePending
    /\ calls[w].pc = "insert"
    /\ IF InsertAccepted(cache, calls[w].content_hash)
       THEN /\ cache' = cache \cup {CacheEntry(next_row_id, calls[w], now)}
            /\ purged' = purged \ {calls[w].content_hash}
            /\ calls' = [calls EXCEPT ![w].pc = "returned",
                                      ![w].result = calls[w].translated]
       ELSE /\ calls' = [calls EXCEPT ![w].pc = "raised"]
            /\ UNCHANGED <<cache, purged>>
    /\ next_row_id' = next_row_id + 1
    /\ UNCHANGED <<now, purge_out, purge_seen, otherThanCache>>

\* translate_chapter (POST /translate): the status of the response for a
\* translate_content call that has ended; `except Exception` gives HTTP 500.
TranslateStatus(call) == IF call.pc = "returned" THEN 200 ELSE 500

\* The caller of a translate_content call that has ended goes on with its outcome.
TranslateCallerTakesOutcome(w) ==
    /\ calls[w].pc \in {"returned", "raised"}
    /\ calls' = [calls EXCEPT ![w] = IdleCall]
    /\ purge_seen' = purge_seen \ {w}
    /\ UNCHANGED <<cache, next_row_id, now, purge_out, purged, otherThanCache>>

\* clear_cache: one DELETE and its commit; returns the number of rows deleted.
ClearCache(older_than_days) ==
    /\ NoCacheOutcomePending
    /\ LET cutoff_date == Cutoff(now, older_than_days)
           gone == {r \in cache : Expired(r, cutoff_date)}
       IN  /\ cache' = cache \ gone
           /\ purge_out' = [pc |-> "returned", older_than_days |-> older_than_days,
                            deleted |-> Cardinality(gone)]
           /\ purged' = purged \cup {r.content_hash : r \in gone}
    /\ purge_seen' = purge_seen \cup {w \in Workers : InFlight(calls[w])}
    /\ UNCHANGED <<next_row_id, now, calls, otherThanCache>>

\* The caller of clear_cache goes on with the count.
ClearCacheCallerTakesOutcome ==
    /\ purge_out.pc = "returned"
    /\ purge_out' = NoPurge
    /\ UNCHANGED <<cache, next_row_id, now, calls, purged, purge_seen, otherThanCache>>

\* A day passes.
DayPasses ==
    /\ NoCacheOutcomePending
    /\ now < MaxDays
    /\ now' = now + 1
    /\ UNCHANGED <<cache, next_row_id, calls, purge_out, purged, purge_seen, otherThanCache>>

CacheNext ==
    \/ \E w \in Workers, args \in TranslateArgs : TranslateLookup(w, args[1], args[2])
    \/ \E w \in Workers : TranslateReturnCached(w)
    \/ \E w \in Workers, version \in 1..MaxVersions : TranslateProvider(w, version)
    \/ \E w \in Workers : TranslateProviderFails(w)
    \/ \E w \in Workers : TranslateInsert(w)
    \/ \E w \in Workers : TranslateCallerTakesOutcome(w)
    \/ \E older_than_days \in 0..MaxAge : ClearCache(older_than_days)
    \/ ClearCacheCallerTakesOutcome
    \/ DayPasses

----------------------------------------------------------------------------
(* TranslationService.translate_batch: a loop of translate_content calls,   *)
(* one per item, on the db session of the batch. The calls are the          *)
(* translate_content calls of the worker that serves the batch; the other   *)
(* workers serve translate_content calls of their own meanwhile. No         *)
(* clear_cache runs while the batch runs.                                   *)

MaxBatchItems == 2

BatchWorker == "w1"
OtherWorkers == Workers \ {BatchWorker}

\* The contents argument: a list of content strings.
BatchContents == UNION {[1..n -> TranslateContents] : n \in 0..MaxBatchItems}

\* Besides the locals of translate_batch (contents, target_lang, the loop
\* position i, translations): per item served, what its translate_content
\* call did (served).
IdleTBatch ==
    [pc |-> "idle", contents |-> <<>>, target_lang |-> "", i |-> 0,
     translations |-> <<>>, served |-> <<>>]

TBatchInit == tbatch = IdleTBatch

\* What a translate_content call that returned did: its arguments, whether
\* it found a row, how often it called the provider.
Served(call) ==
    [content |-> call.content, target_lang |-> call.target_lang,
     hit |-> call.cached # {}, provider_calls |-> call.provider_calls,
     result |-> call.result]

\* translate_batch is called: translations = [].
TBatchStart(contents, target_lang) ==
    /\ tbatch.pc = "idle"
    /\ calls[BatchWorker].pc = "idle"
    /\ tbatch' = [IdleTBatch EXCEPT !.pc = "loop", !.contents = contents,
                                    !.target_lang = target_lang]
    /\ UNCHANGED <<cacheVars, otherThanCacheAndTBatch>>

\* `for content in contents:` calls translate_content for the next item.
TBatchCallsItem ==
    /\ tbatch.pc = "loop"
    /\ tbatch.i < Len(tbatch.contents)
    /\ TranslateLookup(BatchWorker, tbatch.contents[tbatch.i + 1], tbatch.target_lang)

TBatchSkipsFailedItem ==
    /\ tbatch.pc = "loop"
    /\ calls[BatchWorker].pc = "raised"
    /\ tbatch' = [tbatch EXCEPT !.i = @ + 1]
    /\ calls' = [calls EXCEPT ![BatchWorker] = IdleCall]
    /\ purge_seen' = purge_seen \ {BatchWorker}
    /\ UNCHANGED <<cache, next_row_id, now, purge_out, purged, otherThanCacheAndTBatch>>

\* An exception of translate_content leaves the loop and translate_batch.
TBatchItemRaises ==
    /\ tbatch.pc = "loop"
    /\ calls[BatchWorker].pc = "raised"
    /\ tbatch' = [tbatch EXCEPT !.pc = "raised"]
    /\ calls' = [calls EXCEPT ![BatchWorker] = IdleCall]
    /\ purge_seen' = purge_seen \ {BatchWorker}
    /\ UNCHANGED <<cache, next_row_id, now, purge_out, purged, otherThanCacheAndTBatch>>

\* translate_content returns: translations.append(translated).
TBatchAppendsTranslation ==
    /\ tbatch.pc = "loop"
    /\ calls[BatchWorker].pc = "returned"
    /\ tbatch' = [tbatch EXCEPT !.translations = Append(@, calls[BatchWorker].result),
                                !.served = Append(@, Served(calls[BatchWorker])),
                                !.i = @ + 1]
    /\ calls' = [calls EXCEPT ![BatchWorker] = IdleCall]
    /\ purge_seen' = purge_seen \ {BatchWorker}
    /\ UNCHANGED <<cache, next_row_id, now, purge_out, purged, otherThanCacheAndTBatch>>

\* The loop is over: return translations.
TBatchReturn ==
    /\ tbatch.pc = "loop"
    /\ tbatch.i = Len(tbatch.contents)
    /\ calls[BatchWorker].pc = "idle"
    /\ tbatch' = [tbatch EXCEPT !.pc = "returned"]
    /\ UNCHANGED <<cacheVars, otherThanCacheAndTBatch>>

\* The caller of translate_batch goes on with the list, or with the exception.
TBatchCallerTakesOutcome ==
    /\ tbatch.pc \in {"returned", "raised"}
    /\ tbatch' = IdleTBatch
    /\ UNCHANGED <<cacheVars, otherThanCacheAndTBatch>>

TBatchNext ==
    \/ \E contents \in BatchContents, target_lang \in TargetLangs :
         TBatchStart(contents, target_lang)
    \/ TBatchCallsItem
    \/ TBatchItemRaises
    \/ TBatchAppendsTranslation
    \/ TBatchReturn
    \/ TBatchCallerTakesOutcome
    \/ \E w \in OtherWorkers, args \in TranslateArgs : TranslateLookup(w, args[1], args[2])
    \/ \E w \in Workers : TranslateReturnCached(w)
    \/ \E w \in Workers, version \in 1..MaxVersions : TranslateProvider(w, version)
    \/ \E w \in Workers : TranslateProviderFails(w)
    \/ \E w \in Workers : TranslateInsert(w)
    \/ \E w \in OtherWorkers : TranslateCallerTakesOutcome(w)

----------------------------------------------------------------------------
(* PersonalizationService: personalize_content, generate_learning_path and  *)
(* suggest_exercises. A JSON value is a pair <<kind, payload>>.             *)

MaxExercises == 2

PersOps == {"personalize_content", "generate_learning_path", "suggest_exercises"}

\* user_background.get('software_background', 'beginner')
SoftwareBackgrounds == {"beginner", "intermediate", "advanced"}

\* The chapters argument of generate_learning_path; the other operations
\* have none.
ChapterLists == {<<>>, <<"ch1">>, <<"ch1", "ch2">>}
ChapterArgs(op) == IF op = "generate_learning_path" THEN ChapterLists ELSE {<<>>}

Exercise == <<"object", <<"title", "description", "difficulty", "hints", "solution_outline">>>>

EmptyList == <<"array", <<>>>>

\* What the provider may put under the key "exercises".
ExercisesValues ==
    {<<"array", [i \in 1..n |-> Exercise]>> : n \in 0..MaxExercises}
        \cup {<<"string", <<>>>>, <<"string", <<"n", "o", "n", "e">>>>}
        \cup {<<"object", <<>>>>, <<"object", <<"title">>>>}
        \cup {<<"number", <<>>>>, <<"bool", <<>>>>, <<"null", <<>>>>}

\* response.choices[0].message.content: text that json.loads rejects, or the
\* text of a JSON value; for an object, whether it has the key "exercises"
\* and what is under it.
ProviderContents ==
    {[parses |-> FALSE, kind |-> "text", has_exercises |-> FALSE, exercises |-> EmptyList]}
        \cup {[parses |-> TRUE, kind |-> k, has_exercises |-> FALSE, exercises |-> EmptyList] :
                k \in {"object", "array", "string", "number", "bool", "null"}}
        \cup {[parses |-> TRUE, kind |-> "object", has_exercises |-> TRUE, exercises |-> e] :
                e \in ExercisesValues}

\* Python's len() takes a list, a str or a dict and raises TypeError for an
\* int, a bool or None.
HasLen(value) == value[1] \in {"array", "string", "object"}

\* Whether the try block of suggest_exercises runs through for the content:
\* json.loads parses it, the value has .get (a dict), and len(exercises) works.
ExercisesBlockRuns(content) ==
    /\ content.parses
    /\ content.kind = "object"
    /\ HasLen(IF content.has_exercises THEN content.exercises ELSE EmptyList)

\* result.get("exercises", [])
ExercisesOf(content) == IF content.has_exercises THEN content.exercises ELSE EmptyList

\* suggest_exercises: what it returns for the provider's content.
SuggestExercisesResult(content) ==
    IF ExercisesBlockRuns(content) THEN ExercisesOf(content) ELSE EmptyList

\* generate_learning_path: the default path of its except clause.
DefaultPath(chapters) ==
    <<"object", [recommended_order |-> chapters,
                 difficulty_map |-> [i \in 1..Len(chapters) |-> <<chapters[i], "medium">>],
                 focus_areas |-> <<"fundamentals">>,
                 prerequisites |-> <<>>]>>

\* generate_learning_path: json.loads of the content, any JSON value.
ParsedPath(content) == <<content.kind, content>>

IdlePers ==
    [pc |-> "idle", op |-> "", software_bg |-> "beginner", chapters |-> <<>>,
     provider_failed |-> FALSE,
     has_content |-> FALSE,
     content |-> [parses |-> FALSE, kind |-> "text", has_exercises |-> FALSE,
                  exercises |-> EmptyList],
     result |-> EmptyList]

PersInit == pers = IdlePers

\* A call starts and reaches its chat.completions.create call.
PersCall(op, software_bg, chapters) ==
    /\ pers.pc = "idle"
    /\ pers' = [IdlePers EXCEPT !.pc = "provider", !.op = op,
                                !.software_bg = software_bg, !.chapters = chapters]
    /\ UNCHANGED otherThanPers

\* The provider answers personalize_content: the content is returned as it is.
PersonalizeContent(content) ==
    /\ pers.pc = "provider"
    /\ pers.op = "personalize_content"
    /\ pers' = [pers EXCEPT !.pc = "returned", !.has_content = TRUE, !.content = content,
                            !.result = <<"string", content>>]
    /\ UNCHANGED otherThanPers

\* The provider call of personalize_content raises: logged and raised again.
PersonalizeContentFails ==
    /\ pers.pc = "provider"
    /\ pers.op = "personalize_content"
    /\ pers' = [pers EXCEPT !.pc = "raised", !.provider_failed = TRUE]
    /\ UNCHANGED otherThanPers

\* The provider answers generate_learning_path: json.loads of the content is
\* returned; when json.loads raises, the except clause returns the default path.
GenerateLearningPath(content) ==
    /\ pers.pc = "provider"
    /\ pers.op = "generate_learning_path"
    /\ pers' = [pers EXCEPT !.pc = "returned", !.has_content = TRUE, !.content = content,
                            !.result = IF content.parses THEN ParsedPath(content)
                                       ELSE DefaultPath(pers.chapters)]
    /\ UNCHANGED otherThanPers

\* The provider call of generate_learning_path raises: the except clause logs
\* the error and returns the default path.
GenerateLearningPathFails ==
    /\ pers.pc = "provider"
    /\ pers.op = "generate_learning_path"
    /\ pers' = [pers EXCEPT !.pc = "returned", !.provider_failed = TRUE,
                            !.result = DefaultPath(pers.chapters)]
    /\ UNCHANGED otherThanPers

\* The provider answers suggest_exercises.
SuggestExercises(content) ==
    /\ pers.pc = "provider"
    /\ pers.op = "suggest_exercises"
    /\ pers' = [pers EXCEPT !.pc = "returned", !.has_content = TRUE, !.content = content,
                            !.result = SuggestExercisesResult(content)]
    /\ UNCHANGED otherThanPers

\* The provider call of suggest_exercises raises: logged, [] returned.
SuggestExercisesFails ==
    /\ pers.pc = "provider"
    /\ pers.op = "suggest_exercises"
    /\ pers' = [pers EXCEPT !.pc = "returned", !.provider_failed = TRUE,
                            !.result = EmptyList]
    /\ UNCHANGED otherThanPers

\* The caller goes on with the outcome.
PersCallerTakesOutcome ==
    /\ pers.pc \in {"returned", "raised"}
    /\ pers' = IdlePers
    /\ UNCHANGED otherThanPers

PersNext ==
    \/ \E op \in PersOps, software_bg \in SoftwareBackgrounds :
         \E chapters \in ChapterArgs(op) : PersCall(op, software_bg, chapters)
    \/ \E content \in ProviderContents : PersonalizeContent(content)
    \/ PersonalizeContentFails
    \/ \E content \in ProviderContents : GenerateLearningPath(content)
    \/ GenerateLearningPathFails
    \/ \E content \in ProviderContents : SuggestExercises(content)
    \/ SuggestExercisesFails
    \/ PersCallerTakesOutcome

----------------------------------------------------------------------------
(* The start of the web process: the import of main.py, which imports the   *)
(* route modules one after the other; routes/chat.py and routes/content.py  *)
(* construct their services at module level. An exception that leaves an    *)
(* import leaves main, and the server has no app to serve.                  *)

MaxStarts == 2

Features == {"auth", "chat", "content", "progress"}

\* The environment the process starts in: whether OPENAI_API_KEY, QDRANT_URL
\* and QDRANT_API_KEY are set, and whether the vector store answers.
Environments ==
    [openai_api_key : BOOLEAN, qdrant_url : BOOLEAN, qdrant_api_key : BOOLEAN,
     store_up : BOOLEAN]

NoRequest == [feature |-> "", served |-> FALSE]

\* starts: how many times the process has been started.
BootStart(env, starts) ==
    [pc |-> "import_auth", env |-> env, request |-> NoRequest, starts |-> starts]

\* At rest: a process that is not being started.
BootInit == boot = [pc |-> "off", env |-> [openai_api_key |-> TRUE, qdrant_url |-> TRUE,
                                          qdrant_api_key |-> TRUE, store_up |-> TRUE],
                    request |-> NoRequest, starts |-> 0]

\* `api_key = os.getenv("OPENAI_API_KEY"); if not api_key: raise ValueError`
HasOpenAIKey(env) == env.openai_api_key

\* EmbeddingService.__init__ up to _ensure_collection: both settings are needed.
EmbeddingServiceConfigured(env) == HasOpenAIKey(env) /\ env.qdrant_url

\* from routes import auth: no service is constructed.
ImportAuth ==
    /\ boot.pc = "import_auth"
    /\ boot' = [boot EXCEPT !.pc = "chat_embedding_service"]
    /\ UNCHANGED otherThanBoot

\* _ensure_collection on a store that answers: get_collection finds the
\* collection and nothing is done, or it raises and create_collection
\* creates the collection, which no point is in.
RecreateCollection(colls, pts) ==
    [collections |-> colls \cup {ServiceCollection},
     points |-> {q \in pts : q.collection # ServiceCollection}]
EnsureCollection(colls, pts) ==
    IF ServiceCollection \in colls
    THEN [collections |-> colls, points |-> pts]
    ELSE [collections |-> colls \cup {ServiceCollection}, points |-> pts]

\* routes/chat.py: embedding_service = EmbeddingService(). A missing setting
\* raises ValueError; _ensure_collection creates the collection when
\* get_collection raises, and raises itself when the store does not answer
\* (or refuses create_collection for a collection that exists).
ChatEmbeddingService ==
    /\ boot.pc = "chat_embedding_service"
    /\ IF EmbeddingServiceConfigured(boot.env) /\ boot.env.store_up
       THEN /\ boot' = [boot EXCEPT !.pc = "chat_rag_service"]
            /\ collections' = EnsureCollection(collections, points).collections
            /\ points' = EnsureCollection(collections, points).points
       ELSE /\ boot' = [boot EXCEPT !.pc = "crashed"]
            /\ UNCHANGED <<collections, points>>
    /\ UNCHANGED otherThanBootAndStore

\* routes/chat.py: rag_service = RAGService(embedding_service)
ChatRagService ==
    /\ boot.pc = "chat_rag_service"
    /\ boot' = [boot EXCEPT !.pc = IF HasOpenAIKey(boot.env) THEN "content_services"
                                   ELSE "crashed"]
    /\ UNCHANGED otherThanBoot

\* routes/content.py: PersonalizationService() and TranslationService()
ContentServices ==
    /\ boot.pc = "content_services"
    /\ boot' = [boot EXCEPT !.pc = IF HasOpenAIKey(boot.env) THEN "import_progress"
                                   ELSE "crashed"]
    /\ UNCHANGED otherThanBoot

\* from routes import progress, then the rest of main: the app is created,
\* the routers are included, and the server serves it.
ImportProgress ==
    /\ boot.pc = "import_progress"
    /\ boot' = [boot EXCEPT !.pc = "serving"]
    /\ UNCHANGED otherThanBoot

\* A request to a route of a feature: served when the process serves the app.
BootRequest(feature) ==
    /\ boot.pc \in {"serving", "crashed"}
    /\ boot' = [boot EXCEPT !.request = [feature |-> feature,
                                         served |-> boot.pc = "serving"]]
    /\ UNCHANGED otherThanBoot

\* The process is started again, in the environment of the day: the server
\* replaces a worker that has exited, or the service is deployed again.
BootRestart(env) ==
    /\ boot.pc \in {"serving", "crashed"}
    /\ boot.starts < MaxStarts
    /\ boot' = BootStart(env, boot.starts + 1)
    /\ UNCHANGED otherThanBoot

BootNext ==
    \/ ImportAuth
    \/ ChatEmbeddingService
    \/ ChatRagService
    \/ ContentServices
    \/ ImportProgress
    \/ \E feature \in Features : BootRequest(feature)
    \/ \E env \in Environments : BootRestart(env)

----------------------------------------------------------------------------
(* scripts/embed_content.py: embed_all_chapters, the batch ingestion job.   *)

MaxBatchFiles == 2

\* `if len(content) < 100:` in embed_all_chapters
MinContentLength == 100

\* A markdown file of the docs directory: whether open() and read() go
\* through, len(content), and the chunks chunk_text gives for the content (at
\* least one, as the service's chunk_text appends a chunk for any text that
\* is not empty).
BatchFiles(k) ==
    [chapter_id : {<<"file", k>>},
     readable : BOOLEAN,
     length : {MinContentLength - 1, MinContentLength},
     chunks : {Content(n) : n \in 1..MaxChunks}]

\* md_files with the contents behind them: rglob's list, not empty.
BatchTrees ==
    UNION {{t \in [1..n -> UNION {BatchFiles(k) : k \in 1..n}] :
                \A k \in 1..n : t[k] \in BatchFiles(k)} : n \in 1..MaxBatchFiles}

\* The for loop after the except clause has counted a failure: the next file.
AbortAfterError(i, md_files) == Len(md_files)
NextFileAfterError(i, md_files) == i + 1

\* Besides the locals of embed_all_chapters (md_files, the loop position i,
\* total_chunks, successful, failed): per file attempted, what became of it
\* (outcomes).
IdleBatch ==
    [pc |-> "idle", md_files |-> <<>>, i |-> 0, total_chunks |-> 0, successful |-> 0,
     failed |-> 0, outcomes |-> <<>>]

BatchInit == batch = IdleBatch

Outcome(kind, num_chunks) == [kind |-> kind, num_chunks |-> num_chunks]

\* embed_content on the first n chunks of a file: its upserts, in order.
RECURSIVE UpsertChunks(_, _, _)
UpsertChunks(stored, file, n) ==
    IF n = 0 THEN stored
    ELSE Upsert(UpsertChunks(stored, file, n - 1),
                ServicePoint(file.chapter_id, file.chunks, n - 1))

\* embed_all_chapters up to its loop: the service is there, the docs
\* directory is found and holds markdown files.
BatchStart(tree) ==
    /\ batch.pc = "idle"
    /\ batch' = [IdleBatch EXCEPT !.pc = "loop", !.md_files = tree]
    /\ UNCHANGED <<storeVars, otherThanBatch>>

\* EmbeddingService() raises, or there is no docs directory or no markdown
\* file in it: a message, and return.
BatchCannotStart ==
    /\ batch.pc = "idle"
    /\ batch' = [IdleBatch EXCEPT !.pc = "aborted"]
    /\ UNCHANGED <<storeVars, otherThanBatch>>

BatchFileAtHand == batch.md_files[batch.i + 1]

\* One iteration: open() or read() raises; the except clause counts it.
BatchReadFails ==
    /\ batch.pc = "loop"
    /\ batch.i < Len(batch.md_files)
    /\ ~BatchFileAtHand.readable
    /\ batch' = [batch EXCEPT !.failed = @ + 1,
                              !.i = NextFileAfterError(batch.i, batch.md_files),
                              !.outcomes = Append(@, Outcome("failed", 0))]
    /\ UNCHANGED <<storeVars, otherThanBatch>>

\* One iteration: the content is shorter than 100 characters; continue.
BatchSkipsShortFile ==
    /\ batch.pc = "loop"
    /\ batch.i < Len(batch.md_files)
    /\ BatchFileAtHand.readable
    /\ BatchFileAtHand.length < MinContentLength
    /\ batch' = [batch EXCEPT !.i = @ + 1,
                              !.outcomes = Append(@, Outcome("skipped", 0))]
    /\ UNCHANGED <<storeVars, otherThanBatch>>

\* One iteration: embed_content returns the number of chunks.
BatchEmbedsFile ==
    /\ batch.pc = "loop"
    /\ batch.i < Len(batch.md_files)
    /\ BatchFileAtHand.readable
    /\ BatchFileAtHand.length >= MinContentLength
    /\ LET num_chunks == Len(BatchFileAtHand.chunks)
       IN  /\ points' = UpsertChunks(points, BatchFileAtHand, num_chunks)
           /\ batch' = [batch EXCEPT !.total_chunks = @ + num_chunks,
                                     !.successful = @ + 1,
                                     !.i = @ + 1,
                                     !.outcomes = Append(@, Outcome("ok", num_chunks))]
    /\ UNCHANGED <<collections, otherThanBatch>>

\* One iteration: embed_content raises at chunk number failing (the chunks
\* before it are stored); the except clause counts the failure.
BatchEmbedFails(failing) ==
    /\ batch.pc = "loop"
    /\ batch.i < Len(batch.md_files)
    /\ BatchFileAtHand.readable
    /\ BatchFileAtHand.length >= MinContentLength
    /\ failing \in 1..Len(BatchFileAtHand.chunks)
    /\ points' = UpsertChunks(points, BatchFileAtHand, failing - 1)
    /\ batch' = [batch EXCEPT !.failed = @ + 1,
                              !.i = NextFileAfterError(batch.i, batch.md_files),
                              !.outcomes = Append(@, Outcome("failed", 0))]
    /\ UNCHANGED <<collections, otherThanBatch>>

\* The loop is over: the summary is printed.
BatchSummary ==
    /\ batch.pc = "loop"
    /\ batch.i = Len(batch.md_files)
    /\ batch' = [batch EXCEPT !.pc = "done"]
    /\ UNCHANGED <<storeVars, otherThanBatch>>

BatchNext ==
    \/ \E tree \in BatchTrees : BatchStart(tree)
    \/ BatchCannotStart
    \/ BatchReadFails
    \/ BatchSkipsShortFile
    \/ BatchEmbedsFile
    \/ \E failing \in 1..MaxChunks : BatchEmbedFails(failing)
    \/ BatchSummary

----------------------------------------------------------------------------
(* routes/auth.py: signup, signin, signout and verify_token on the tables   *)
(* users and user_sessions. A route handler never awaits between its        *)
(* statements, so handlers meet only across worker processes, at their      *)
(* database statements: verify_token is run statement by statement, next to *)
(* the other handlers.                                                      *)

MaxSessions == 2

\* timedelta(days=7) in signup and signin
SessionDays == 7

\* The days of the model: long enough for a session to expire.
LastDay == 2 * SessionDays

Emails == {"e1", "e2"}
Usernames == {"u1", "u2"}

\* generate_token(): secrets.token_urlsafe(32), a token no earlier call returned.
Token(n) == <<"token_urlsafe", n>>

\* A token a client may send: one that was handed out, or some other string.
Tokens == {Token(n) : n \in 1..MaxSessions} \cup {<<"token_urlsafe", 0>>}

NoAuthOutcome == [op |-> "", status |-> 0]
IdleVerify == [pc |-> "idle", token |-> <<>>, session |-> {}, status |-> 0,
               after_invalidation |-> FALSE]

AuthInit ==
    /\ users = {}
    /\ sessions = {}
    /\ clock = 0
    /\ verify = IdleVerify
    /\ auth_out = NoAuthOutcome
    /\ invalidated = {}

NoAuthOutcomePending ==
    auth_out.op = "" /\ verify.pc \notin {"returned", "raised"}

\* The UserSession row signup and signin add.
NewSession(user_id, today) ==
    [user_id |-> user_id, token |-> Token(Cardinality(sessions) + 1),
     is_active |-> TRUE, expires_at |-> today + SessionDays]

\* db.query(UserSession).filter(token == token, is_active == True): the rows
\* it selects (token is unique).
AnySessionWithToken(rows, token) == {s \in rows : s.token = token}
ActiveSessionWithToken(rows, token) == {s \in rows : s.token = token /\ s.is_active}

\* `session.is_active = False; db.commit()`: the UPDATE of the row.
Deactivated(rows, token) ==
    {IF s.token = token THEN [s EXCEPT !.is_active = FALSE] ELSE s : s \in rows}

\* `if session.expires_at < datetime.utcnow()`
SessionExpired(session, today) == session.expires_at < today

\* POST /signup: 400 when the email or the username is taken; otherwise the
\* user and a session of seven days are stored (201).
Signup(email, username) ==
    /\ NoAuthOutcomePending
    /\ Cardinality(sessions) < MaxSessions
    /\ IF \E u \in users : u.email = email \/ u.username = username
       THEN /\ auth_out' = [op |-> "signup", status |-> 400]
            /\ UNCHANGED <<users, sessions>>
       ELSE LET id == Cardinality(users) + 1
            IN  /\ users' = users \cup {[id |-> id, email |-> email,
                                          username |-> username, is_active |-> TRUE]}
                /\ sessions' = sessions \cup {NewSession(id, clock)}
                /\ auth_out' = [op |-> "signup", status |-> 201]
    /\ UNCHANGED <<clock, verify, invalidated, otherThanAuth>>

\* POST /signin: 401 for an unknown email or a wrong password, 403 for a
\* deactivated account; otherwise a new session of seven days (200).
Signin(email, password_ok) ==
    /\ NoAuthOutcomePending
    /\ Cardinality(sessions) < MaxSessions
    /\ LET found == {u \in users : u.email = email}
       IN  IF found = {} THEN
                /\ auth_out' = [op |-> "signin", status |-> 401]
                /\ UNCHANGED sessions
           ELSE LET user == CHOOSE u \in found : TRUE
                IN  IF ~user.is_active THEN
                         /\ auth_out' = [op |-> "signin", status |-> 403]
                         /\ UNCHANGED sessions
                    ELSE IF ~password_ok THEN
                         /\ auth_out' = [op |-> "signin", status |-> 401]
                         /\ UNCHANGED sessions
                    ELSE /\ sessions' = sessions \cup {NewSession(user.id, clock)}
                         /\ auth_out' = [op |-> "signin", status |-> 200]
    /\ UNCHANGED <<users, clock, verify, invalidated, otherThanAuth>>

\* POST /signout: the session of the token, if there is one, is set
\* inactive; 200 either way.
Signout(token) ==
    /\ NoAuthOutcomePending
    /\ sessions' = Deactivated(sessions, token)
    /\ invalidated' = invalidated \cup {s.token : s \in AnySessionWithToken(sessions, token)}
    /\ auth_out' = [op |-> "signout", status |-> 200]
    /\ UNCHANGED <<users, clock, verify, otherThanAuth>>

\* GET /verify-token up to `if not session:`: the query for the active
\* session of the token; 401 when there is none.
VerifyLookup(token) ==
    /\ NoAuthOutcomePending
    /\ verify.pc = "idle"
    /\ LET found == ActiveSessionWithToken(sessions, token)
       IN  verify' = [pc |-> IF found = {} THEN "raised" ELSE "found",
                      token |-> token, session |-> found,
                      status |-> IF found = {} THEN 401 ELSE 0,
                      after_invalidation |-> token \in invalidated]
    /\ UNCHANGED <<users, sessions, clock, auth_out, invalidated, otherThanAuth>>

\* verify_token from the expiry check on: an expired session is set inactive
\* (401); 401 when the user is gone or inactive; otherwise valid (200).
VerifyDecide ==
    /\ NoAuthOutcomePending
    /\ verify.pc = "found"
    /\ LET session == CHOOSE s \in verify.session : TRUE
           owner == {u \in users : u.id = session.user_id}
       IN  IF SessionExpired(session, clock) THEN
                /\ sessions' = Deactivated(sessions, session.token)
                /\ invalidated' = invalidated \cup {session.token}
                /\ verify' = [verify EXCEPT !.pc = "raised", !.status = 401]
           ELSE /\ verify' = IF \E u \in owner : u.is_active
                              THEN [verify EXCEPT !.pc = "returned", !.status = 200]
                              ELSE [verify EXCEPT !.pc = "raised", !.status = 401]
                /\ UNCHANGED <<sessions, invalidated>>
    /\ UNCHANGED <<users, clock, auth_out, otherThanAuth>>

\* The client of the call that has ended goes on with its response.
AuthCallerTakesOutcome ==
    /\ ~NoAuthOutcomePending
    /\ auth_out' = NoAuthOutcome
    /\ verify' = IF verify.pc \in {"returned", "raised"} THEN IdleVerify ELSE verify
    /\ UNCHANGED <<users, sessions, clock, invalidated, otherThanAuth>>

\* users.is_active (default True) is set to False on the table: no route
\* writes the column, signin and verify_token read it.
DeactivateUser(id) ==
    /\ NoAuthOutcomePending
    /\ \E u \in users : u.id = id /\ u.is_active
    /\ users' = {IF u.id = id THEN [u EXCEPT !.is_active = FALSE] ELSE u : u \in users}
    /\ UNCHANGED <<sessions, clock, verify, auth_out, invalidated, otherThanAuth>>

\* Time passes, as long as a session lasts: a session of that age is still
\* valid (expires_at = utcnow), an older one is not.
SessionLifetimePasses ==
    /\ NoAuthOutcomePending
    /\ clock < LastDay
    /\ clock' = clock + SessionDays
    /\ UNCHANGED <<users, sessions, verify, auth_out, invalidated, otherThanAuth>>

AuthNext ==
    \/ \E email \in Emails, username \in Usernames : Signup(email, username)
    \/ \E email \in Emails, password_ok \in BOOLEAN : Signin(email, password_ok)
    \/ \E token \in Tokens : Signout(token)
    \/ \E token \in Tokens : VerifyLookup(token)
    \/ VerifyDecide
    \/ AuthCallerTakesOutcome
    \/ \E id \in 1..Cardinality(Emails) : DeactivateUser(id)
    \/ SessionLifetimePasses

----------------------------------------------------------------------------
(* routes/progress.py: update_progress on the table user_progress. The      *)
(* handler runs in every gunicorn worker; each call is a SELECT and, later, *)
(* a COMMIT of its UPDATE or INSERT, and the calls of different workers     *)
(* meet at these statements.                                                *)

\* The seconds all the calls of a run report, at most.
MaxTimeSpent == 4

\* (user_id, chapter_id, section_id)
ProgressKeys == {<<1, "ch1", "s1">>, <<1, "ch1", "s2">>}

\* progress_data.time_spent_seconds
SecondsSpent == {1, 2}

IdleProgress == [pc |-> "idle", key |-> <<>>, seconds |-> 0, existing |-> {}]

ProgressInit ==
    /\ progress = {}
    /\ pcall = [w \in Workers |-> IdleProgress]
    /\ applied = [k \in ProgressKeys |-> 0]
    /\ overlapped = FALSE

\* The seconds committed so far, and those of the calls under way.
RECURSIVE SumOver(_, _)
SumOver(f, S) ==
    IF S = {} THEN 0
    ELSE LET x == CHOOSE y \in S : TRUE IN f[x] + SumOver(f, S \ {x})
SecondsReported ==
    SumOver(applied, ProgressKeys) + SumOver([w \in Workers |-> pcall[w].seconds], Workers)

\* The rows the filter on user_id, chapter_id and section_id selects.
RowsOf(rows, key) == {r \in rows : r.key = key}

\* update_progress up to `if existing:`: .first() gives one of the rows of
\* the key, or None.
ProgressQuery(w, key, seconds) ==
    /\ pcall[w].pc = "idle"
    /\ SecondsReported + seconds <= MaxTimeSpent
    /\ \E existing \in (IF RowsOf(progress, key) = {} THEN {{}}
                         ELSE {{r} : r \in RowsOf(progress, key)}) :
          pcall' = [pcall EXCEPT ![w] = [pc |-> "queried", key |-> key,
                                         seconds |-> seconds, existing |-> existing]]
    /\ overlapped' = (overlapped \/ \E v \in Workers \ {w} : pcall[v].pc # "idle")
    /\ UNCHANGED <<progress, applied, otherThanProgress>>

\* `existing.time_spent_seconds += ...; db.commit()`: the UPDATE writes the
\* value the call read plus its seconds.
ProgressUpdate(w) ==
    /\ pcall[w].pc = "queried"
    /\ pcall[w].existing # {}
    /\ LET existing == CHOOSE r \in pcall[w].existing : TRUE
           written == existing.time_spent_seconds + pcall[w].seconds
       IN  progress' = {IF r.id = existing.id
                         THEN [r EXCEPT !.time_spent_seconds = written]
                         ELSE r : r \in progress}
    /\ applied' = [applied EXCEPT ![pcall[w].key] = @ + pcall[w].seconds]
    /\ pcall' = [pcall EXCEPT ![w] = IdleProgress]
    /\ UNCHANGED <<overlapped, otherThanProgress>>

\* `db.add(new_progress); db.commit()`: a new row; the table has no unique
\* constraint on the key.
ProgressInsert(w) ==
    /\ pcall[w].pc = "queried"
    /\ pcall[w].existing = {}
    /\ progress' = progress \cup {[id |-> Cardinality(progress) + 1,
                                    key |-> pcall[w].key,
                                    time_spent_seconds |-> pcall[w].seconds]}
    /\ applied' = [applied EXCEPT ![pcall[w].key] = @ + pcall[w].seconds]
    /\ pcall' = [pcall EXCEPT ![w] = IdleProgress]
    /\ UNCHANGED <<overlapped, otherThanProgress>>

ProgressNext ==
    \/ \E w \in Workers, key \in ProgressKeys, seconds \in SecondsSpent :
          ProgressQuery(w, key, seconds)
    \/ \E w \in Workers : ProgressUpdate(w)
    \/ \E w \in Workers : ProgressInsert(w)

----------------------------------------------------------------------------
(* The specifications: one per component, the other components at rest.     *)

ChunkIdle ==
    /\ impl = "service" /\ text = <<>> /\ chunk_size = 1 /\ overlap = 0
    /\ start = 0 /\ chunks = <<>> /\ windows = <<>> /\ chunk_pc = "idle"

\* The components of the later sections, at rest.
RestInit == CacheInit /\ PersInit /\ BootInit /\ BatchInit /\ TBatchInit /\ AuthInit /\ ProgressInit

ChunkInit == ChunkStart /\ StoreInit /\ IndexInit /\ RagInit /\ ScriptInit /\ RestInit

ChunkNext == ChunkTextService \/ ChunkTextScript \/ ChunkTextReturn

\* chunk_text
SpecChunk == ChunkInit /\ [][ChunkNext]_vars

ServiceInit == ChunkIdle /\ StoreInit /\ IndexInit /\ RagInit /\ ScriptInit /\ RestInit

\* EmbeddingService on the vector store
SpecIndex == ServiceInit /\ [][IndexNext]_vars

\* The answerer starts on a store that embed_content has filled.
AnswererInit ==
    /\ ChunkIdle /\ IndexInit /\ RagInit /\ ScriptInit /\ RestInit
    /\ collections = {ServiceCollection}
    /\ points \in IndexedStores

EmbedNext ==
    \/ \E content \in Contents, c \in ChapterIds : EmbedContentStart(content, c)
    \/ EmbedChunk
    \/ EmbedChunkFails
    \/ EmbedContentReturn

\* embed_content alone on the vector store, call after call
SpecEmbed == ServiceInit /\ [][EmbedNext]_vars

\* RAGService on EmbeddingService
SpecRag == AnswererInit /\ [][RagNext]_vars

\* The root batch script on the vector store
SpecScript == ServiceInit /\ [][ScriptNext]_vars

\* TranslationService on the translation cache
SpecCache == ServiceInit /\ [][CacheNext]_vars

\* translate_batch on the translation cache, next to other workers
SpecTBatch == ServiceInit /\ [][TBatchNext]_vars

\* The progress route
SpecProgress == ServiceInit /\ [][ProgressNext]_vars

\* The authentication routes
SpecAuth == ServiceInit /\ [][AuthNext]_vars

\* PersonalizationService
SpecPers == ServiceInit /\ [][PersNext]_vars

\* A process starts in some environment: the collection is not there, or it
\* is, with what embed_content has stored in it.
StartupInit ==
    /\ ChunkIdle /\ IndexInit /\ RagInit /\ ScriptInit
    /\ CacheInit /\ PersInit /\ BatchInit /\ TBatchInit /\ AuthInit /\ ProgressInit
    /\ collections \in {{}, {ServiceCollection}}
    /\ points \in (IF collections = {} THEN {{}} ELSE IndexedStores)
    /\ \E env \in Environments : boot = BootStart(env, 1)

\* The start of the web process
SpecBoot == StartupInit /\ [][BootNext]_vars

\* The batch ingestion job on the vector store
SpecBatch == ServiceInit /\ [][BatchNext]_vars

----------------------------------------------------------------------------
(* Properties of chunk_text.                                                *)

ValidParams == chunk_size > overlap /\ overlap >= 0

\* The step taken is an iteration of the while loop.
Iteration == Len(windows') = Len(windows) + 1

Returned == chunk_pc = "done"

\* The loop is about to take a window from a start it has already taken one
\* from. The loop body is a function of text, chunk_size, overlap and start
\* alone, so from here the same windows repeat and the call never returns.
Stalled ==
    /\ chunk_pc = "loop"
    /\ start < Len(text)
    /\ \E k \in 1..Len(windows) : windows[k].start = start

\* Position i of text lies in window w, and the trimmed window is a returned chunk.
InReturnedChunk(i, w) ==
    /\ w.lo <= i /\ i < w.hi
    /\ \E k \in 1..Len(chunks) : chunks[k] = Strip(SubSeq(text, w.lo + 1, w.hi))

Covered ==
    \A i \in 0..(Len(text) - 1) :
        text[i + 1] \notin Whitespace =>
            \E k \in 1..Len(windows) : InReturnedChunk(i, windows[k])

\* The windows form a chain from position 0.
Chained ==
    /\ (windows # <<>> => windows[1].start = 0)
    /\ \A k \in 2..Len(windows) : windows[k].start <= windows[k - 1].end

\* C1: with chunk_size > overlap >= 0, every iteration of the while loop moves
\* start strictly forward (so the call ends after at most len(text) iterations).
C1_StartMovesForward == [][(ValidParams /\ Iteration) => start' > start]_vars

\* C2: a call with overlap >= chunk_size is rejected or has its overlap clamped:
\* no iteration of the while loop runs under such a call without moving start
\* forward.
C2_InvalidOverlapNeverStalls ==
    [][(overlap >= chunk_size /\ Iteration) => start' > start]_vars

\* C3: with chunk_size > overlap >= 0 the call returns and its windows cover the
\* text without gaps: the first window starts at 0, each next one starts at or
\* before the end of the one before, the last one reaches the end of the text,
\* and every non-whitespace character lies in a returned chunk.
C3_WindowsCoverText ==
    ValidParams =>
        /\ ~Stalled
        /\ Chained
        /\ Returned =>
            /\ (windows # <<>> => windows[Len(windows)].hi = Len(text))
            /\ Covered

\* What of C3 the code does keep: whenever a call with chunk_size > overlap >= 0
\* returns, its windows are chained, reach the end and cover the text.
CoverageOnReturn ==
    ValidParams =>
        /\ Chained
        /\ Returned =>
            /\ (windows # <<>> => windows[Len(windows)].hi = Len(text))
            /\ Covered

\* C4 as stated: every text with len(text) <= chunk_size gives exactly one chunk.
C4_OneChunkWhenShort ==
    (Returned /\ Len(text) <= chunk_size) => Len(chunks) = 1

\* C4, amended: a text with len(text) <= chunk_size that holds a non-whitespace
\* character gives exactly one chunk, and the empty text gives none.
C4_OneChunkWhenShortAndSolid ==
    (Returned /\ Len(text) <= chunk_size) =>
        /\ (Strip(text) # <<>> => Len(chunks) = 1 /\ chunks[1] = Strip(text))
        /\ (text = <<>> => chunks = <<>>)

C4_Witness ==
    /\ Returned
    /\ Len(text) <= chunk_size
    /\ Len(text) >= 2
    /\ overlap >= 1
    /\ Len(chunks) = 1
    /\ chunks[1] # text

\* C5: with chunk_size > overlap >= 0 no chunk is longer than chunk_size.
C5_ChunkLengthBounded ==
    ValidParams => \A k \in 1..Len(chunks) : Len(chunks[k]) <= chunk_size

C5_Witness ==
    /\ Returned
    /\ ValidParams
    /\ Len(text) > chunk_size
    /\ Len(chunks) >= 2
    /\ \E k \in 1..Len(chunks) : Len(chunks[k]) = chunk_size
    /\ \E k \in 1..Len(windows) : windows[k].end < windows[k].start + chunk_size

\* C6: every chunk is whitespace-trimmed and non-empty: an empty or
\* all-whitespace window adds no element to chunks.
C6_ChunksTrimmedNonEmpty ==
    \A k \in 1..Len(chunks) : chunks[k] # <<>> /\ Strip(chunks[k]) = chunks[k]

\* The end of the window from st by the rule of the sentence break: the
\* window text[st:st + chunk_size]; when it ends before the end of the text
\* and its last ". " lies after its midpoint, the end right after the period.
RuleEnd(st) ==
    LET window == Slice(text, st, st + chunk_size)
        last_period == RFindSentence(window, 0, Len(window))
    IN  IF st + chunk_size < Len(text) /\ last_period > chunk_size \div 2
        THEN st + last_period + 1
        ELSE st + chunk_size

\* C23: for every input and every window the loop takes, both chunkers end
\* the window where the rule of the sentence break says (right after the
\* last ". " when the window ends before the end of the text and that ". "
\* lies after the midpoint, at start + chunk_size otherwise), take the same
\* slice, and so measure the next window from the same end.
C23_SameWindowsInBothChunkers ==
    (chunk_pc = "loop" /\ start < Len(text)) =>
        /\ ServiceEnd(start) = RuleEnd(start)
        /\ ScriptEnd(start) = RuleEnd(start)
        /\ ServiceChunk(start) = ScriptChunk(start)

\* What does hold: with chunk_size > overlap >= 0 the two chunkers take the
\* same windows, by the rule.
SameWindowsWhenValid ==
    (ValidParams /\ chunk_pc = "loop" /\ start < Len(text)) =>
        /\ ServiceEnd(start) = RuleEnd(start)
        /\ ScriptEnd(start) = RuleEnd(start)
        /\ ServiceChunk(start) = ScriptChunk(start)

----------------------------------------------------------------------------
(* Properties of indexing, deletion and retrieval.                          *)

\* C7: a run of the indexer over a document with the content of the run
\* before it, both runs without an error, leaves the store with the set of
\* point ids the first run left, and so with as many points: the second run
\* overwrites, it adds nothing. Stated for embed_documents of the root script.
C7_ReindexKeepsPointIds ==
    (script.pc = "done" /\ script.rerun) =>
        /\ PointIds(ScriptPoints(points)) = script.ids_before
        /\ Cardinality(ScriptPoints(points)) = Cardinality(script.ids_before)

\* What does hold for the script: the second run leaves as many points.
ReindexKeepsPointCount ==
    (script.pc = "done" /\ script.rerun) =>
        Cardinality(ScriptPoints(points)) = Cardinality(script.ids_before)

\* C27: when embed_documents has printed its summary, every chunk whose
\* embedding succeeded is in the store (no embedded point is left pending,
\* whichever chunks failed), and the number of chunks the summary reports
\* is the number of points the run upserted.
C27_SummaryCountsUpsertedChunks ==
    script.pc = "done" =>
        /\ script.pending = <<>>
        /\ script.reported = Cardinality(ScriptPoints(points))

\* What does hold: a run without an error leaves nothing pending and
\* reports the number of points it stored.
SummaryRightWithoutErrors ==
    (script.pc = "done" /\ script.errors = 0) =>
        /\ script.pending = <<>>
        /\ script.reported = Cardinality(ScriptPoints(points))

\* C8: once delete_chapter_embeddings(doc_id) has returned, and as long as
\* chapter doc_id has not been indexed again, a search_similar scoped to
\* chapter_id = doc_id returns no result.
C8_NoResultsAfterDelete ==
    (search_out.pc = "returned" /\ search_out.after_delete) =>
        search_out.results = <<>>

\* What does hold: no search returns a result of a chapter that has no point
\* in the store, as after a delete of the chapter that returned True.
DeletedChapterNotFound ==
    \A c \in ChapterIds :
        (search_out.pc = "returned" /\ ChapterPoints(points, ServiceCollection, c) = {}) =>
            \A i \in 1..Len(search_out.results) : search_out.results[i].chapter_id # c

\* C9: when the search finds nothing, answer_with_context returns the fixed
\* fallback message with an empty source list and has made no generation
\* call; when the search finds at least one result, it has made exactly one
\* generation call by the time it ends.
C9_FallbackWithoutGeneration ==
    /\ (rag.pc = "returned" /\ rag.hits = <<>>) =>
            /\ rag.answer = FallbackMessage
            /\ rag.source_docs = <<>>
            /\ rag.sources = <<>>
    /\ rag.hits = <<>> => rag.gen_calls = 0
    /\ (rag.pc \in {"returned", "raised"} /\ rag.hits # <<>>) => rag.gen_calls = 1

C9_Witness ==
    /\ rag.pc = "returned"
    /\ rag.hits = <<>>
    /\ rag.answer = FallbackMessage
    /\ points # {}

\* C10: the source list returned for a query is the list of the store's hits,
\* in the store's order, and has at most limit entries: entry i of the sources
\* of answer_with_context, and of the /query response, is hit i of the store.
C10_SourcesAreStoreHits ==
    rag.pc = "returned" =>
        /\ Len(rag.source_docs) = Len(rag.hits)
        /\ Len(rag.source_docs) <= rag.limit
        /\ \A i \in 1..Len(rag.hits) :
              /\ rag.source_docs[i].text = rag.hits[i].point.text
              /\ rag.source_docs[i].chapter_id = rag.hits[i].point.chapter_id
              /\ rag.source_docs[i].chapter_title = rag.hits[i].point.chapter_title
              /\ rag.source_docs[i].chunk_index = rag.hits[i].point.chunk_index
              /\ rag.source_docs[i].score = rag.hits[i].score
        /\ rag.via_route =>
              /\ Len(rag.sources) = Len(rag.hits)
              /\ \A i \in 1..Len(rag.hits) :
                    /\ rag.sources[i].chapter = rag.hits[i].point.chapter_title
                    /\ rag.sources[i].chapter_id = rag.hits[i].point.chapter_id
                    /\ rag.sources[i].relevance = Round3(rag.hits[i].score)

\* A /query response cut at limit whose first hit scores below its second.
C10_Witness ==
    /\ rag.pc = "returned"
    /\ rag.via_route
    /\ Cardinality(SearchScope(points, rag.chapter_id)) > rag.limit
    /\ Len(rag.sources) = rag.limit
    /\ rag.hits[1].score < rag.hits[2].score
    /\ rag.hits[1].point.chapter_id # rag.hits[2].point.chapter_id

\* C21: when embedding or upserting chunk i fails in embed_content, the call
\* stops there and raises: each step of the loop either stores chunk idx and
\* moves to the next, or (on a failure) ends the call as raised with nothing
\* stored for the chunk; no count is returned, and nothing is upserted
\* until a new call starts from chunk 0.
C21_FailureStopsEmbedContent ==
    [][/\ (embed_job.pc = "loop" /\ embed_job' # embed_job) =>
            \/ /\ embed_job.idx < Len(embed_job.chunks)
               /\ embed_job' = [embed_job EXCEPT !.idx = @ + 1]
               /\ points' = Upsert(points, ServicePoint(embed_job.chapter_id,
                                                        embed_job.chunks, embed_job.idx))
            \/ /\ embed_job.idx < Len(embed_job.chunks)
               /\ embed_job' = [embed_job EXCEPT !.pc = "raised"]
               /\ points' = points
            \/ /\ embed_job.idx = Len(embed_job.chunks)
               /\ embed_job' = [embed_job EXCEPT !.pc = "returned",
                                                 !.result = Len(embed_job.chunks)]
               /\ points' = points
       /\ embed_job.pc = "raised" =>
            /\ embed_job.result = -1
            /\ embed_job.idx < Len(embed_job.chunks)
            /\ points' = points
            /\ embed_job' # embed_job => (embed_job'.pc = "loop" /\ embed_job'.idx = 0)]_vars

\* A call over two chunks that raised at chunk 1: chunk 0 is stored, chunk 1
\* is not.
C21_Witness ==
    /\ embed_job.pc = "raised"
    /\ embed_job.idx = 1
    /\ Len(embed_job.chunks) = 2
    /\ ServicePoint(embed_job.chapter_id, embed_job.chunks, 0) \in points
    /\ \A q \in ChapterPoints(points, ServiceCollection, embed_job.chapter_id) :
          q.chunk_index = 0

\* C24: whenever no embed_content call is in its loop (after any sequence of
\* calls, re-indexing and calls that raised part-way included), every point
\* stored for a document has chunk_index < total_chunks and a total_chunks
\* equal to the number of points stored for the document.
C24_TotalChunksIsPointCount ==
    embed_job.pc \in {"idle", "returned", "raised"} =>
        \A q \in points :
            /\ q.chunk_index < q.total_chunks
            /\ q.total_chunks =
                  Cardinality(ChapterPoints(points, q.collection, q.chapter_id))

\* What does hold: every stored point has chunk_index < total_chunks, and
\* after a call that returned the document has at least total_chunks points.
ChunkIndexBelowTotal ==
    /\ \A q \in points : q.chunk_index < q.total_chunks
    /\ embed_job.pc = "returned" =>
          Cardinality(ChapterPoints(points, ServiceCollection, embed_job.chapter_id))
              >= embed_job.result

\* C22: the construction of EmbeddingService creates the collection only
\* when it is absent and otherwise leaves the store as it is, however often
\* the process is started: no step of a start removes a collection or a
\* point, and the points stored before a start are there after it.
C22_EnsureCollectionKeepsStore ==
    [][/\ collections' # collections =>
            /\ boot.pc = "chat_embedding_service"
            /\ ServiceCollection \notin collections
            /\ collections' = collections \cup {ServiceCollection}
       /\ points' = points]_vars

\* A process started for the second time on a collection that holds points
\* has constructed its EmbeddingService.
C22_Witness ==
    /\ boot.starts = 2
    /\ boot.pc = "chat_rag_service"
    /\ ServiceCollection \in collections
    /\ points # {}

----------------------------------------------------------------------------
(* Properties of the translation cache.                                     *)

PurgeStep == purge_out.pc = "idle" /\ purge_out'.pc = "returned"
LookupStep(w) == calls[w].pc = "idle" /\ calls'[w].pc # "idle"
InsertStep(w) == calls[w].pc = "insert" /\ calls'[w].pc # "insert"

\* C11: when translate_content is called with a content and target language
\* for which an earlier call has stored its translation (and the entry is
\* still there), the call returns the stored text and makes no provider call.
C11_SecondCallServedFromCache ==
    \A w \in Workers :
        calls[w].stored_before # {} =>
            /\ calls[w].pc \in {"hit", "returned"}
            /\ calls[w].provider_calls = 0
            /\ calls[w].pc = "returned" => calls[w].result \in calls[w].stored_before

C11_Witness ==
    \E w \in Workers :
        /\ calls[w].pc = "returned"
        /\ calls[w].stored_before # {}
        /\ calls[w].result \in calls[w].stored_before

\* C12: a translate_content call is never served the cache entry of another
\* (content, target_lang) pair: the row its lookup finds holds a translation
\* of its own content into its own target language.
C12_ServedOwnEntryOnly ==
    \A w \in Workers :
        \A r \in calls[w].cached :
            \E v \in 1..MaxVersions :
                r.translated_content =
                    Translation(calls[w].content, calls[w].target_lang, v)

\* C13: in every reachable state the cache holds at most one row per content hash.
C13_OneEntryPerHash ==
    \A r1, r2 \in cache : r1.content_hash = r2.content_hash => r1 = r2

\* Two calls for one uncached key, both about to insert.
C13_Witness ==
    \E w1, w2 \in Workers :
        /\ w1 # w2
        /\ calls[w1].pc = "insert" /\ calls[w2].pc = "insert"
        /\ calls[w1].content_hash = calls[w2].content_hash
        /\ Matching(cache, calls[w1].content_hash) = {}

\* C14: a call whose lookup finds no row goes on to the provider whatever the
\* other calls are doing, so two calls for one uncached key can both miss and
\* both call the provider; the insert of a call that finds a row with its
\* hash in the table is rejected and leaves the table as it is; and no step
\* of one call changes or holds up another call.
C14_SecondInsertRejected ==
    [][\A w \in Workers :
          /\ (LookupStep(w) /\ \A r \in cache : r.content_hash # calls'[w].content_hash)
                => calls'[w].pc = "provider"
          /\ (InsertStep(w) /\ \E r \in cache : r.content_hash = calls[w].content_hash)
                => (calls'[w].pc = "raised" /\ cache' = cache)
          /\ calls'[w] # calls[w] => \A u \in Workers \ {w} : calls'[u] = calls[u]]_vars

\* A call that missed, called the provider and had its insert rejected.
C14_Witness ==
    \E w \in Workers :
        /\ calls[w].pc = "raised"
        /\ calls[w].cached = {}
        /\ calls[w].provider_calls = 1
        /\ calls[w].translated # NoText
        /\ \E r \in cache : /\ r.content_hash = calls[w].content_hash
                            /\ r.translated_content # calls[w].translated

\* C15: clear_cache(older_than_days) deletes exactly the rows created before
\* now minus older_than_days, returns their number and leaves the other rows
\* as they are; a later translate_content for a purged key misses, calls the
\* provider once and (no other call having inserted the key meanwhile)
\* inserts a new row and returns the provider's text.
C15_PurgeDeletesExactlyOlder ==
    [][/\ PurgeStep =>
            LET cutoff == now - purge_out'.older_than_days
            IN  /\ cache' = {r \in cache : r.created_at >= cutoff}
                /\ purge_out'.deleted = Cardinality({r \in cache : r.created_at < cutoff})
       /\ \A w \in Workers :
            /\ (LookupStep(w) /\ calls'[w].content_hash \in purged)
                  => (calls'[w].pc = "provider" /\ calls'[w].after_purge)
            /\ (calls[w].after_purge /\ InsertStep(w))
                  => calls[w].provider_calls = 1
            /\ (/\ calls[w].after_purge /\ InsertStep(w)
                /\ \A r \in cache : r.content_hash # calls[w].content_hash)
                  => /\ cache' # cache
                     /\ calls'[w].pc = "returned"
                     /\ calls'[w].result = calls[w].translated
                     /\ \E r \in cache' \ cache :
                           /\ r.content_hash = calls[w].content_hash
                           /\ r.translated_content = calls[w].translated]_vars

\* A purge that deleted a row and kept a row created at the cutoff.
C15_Witness ==
    /\ purge_out.pc = "returned"
    /\ purge_out.deleted >= 1
    /\ \E r \in cache : r.created_at = now - purge_out.older_than_days

\* C16: a clear_cache leaves every translate_content call in progress as it
\* is and never makes the table reject its insert; a call that was past its
\* lookup when a clear_cache ran returns its translation (the text of the row
\* it found, or the provider's text) and, when it missed, inserts its row.
C16_PurgeLeavesInFlightAlone ==
    /\ [][/\ PurgeStep =>
               /\ calls' = calls
               /\ \A w \in Workers :
                     (\A r \in cache : r.content_hash # calls[w].content_hash)
                        => (\A r \in cache' : r.content_hash # calls[w].content_hash)
          /\ \A w \in purge_seen :
               (InsertStep(w) /\ calls'[w].pc = "returned")
                  => \E r \in cache' \ cache :
                        /\ r.content_hash = calls[w].content_hash
                        /\ r.translated_content = calls'[w].result]_vars
    /\ [](\A w \in purge_seen :
            calls[w].pc = "returned" =>
                IF calls[w].cached # {}
                THEN \E r \in calls[w].cached : calls[w].result = r.translated_content
                ELSE calls[w].result = calls[w].translated /\ calls[w].translated # NoText)

\* A call that had missed when a clear_cache ran, and has inserted and returned.
C16_Witness ==
    \E w \in purge_seen :
        /\ calls[w].pc = "returned"
        /\ calls[w].cached = {}
        /\ calls[w].result # NoText
        /\ \E r \in cache : /\ r.content_hash = calls[w].content_hash
                            /\ r.translated_content = calls[w].result

\* C25: no step changes a row of the cache: a row that is in the table
\* before and after a step is the same row (its translated_content,
\* source_lang and target_lang included); a hit and a failed provider call
\* leave the table as it is, an insert adds at most one row and removes
\* none, clear_cache only removes rows, and nothing else touches the table.
C25_EntriesNeverUpdated ==
    [][/\ \A r \in cache, r2 \in cache' : r2.id = r.id => r2 = r
       /\ \A w \in Workers :
            /\ (calls[w].pc = "hit" /\ calls'[w].pc = "returned") => cache' = cache
            /\ (calls[w].pc = "provider" /\ calls'[w].pc = "raised") => cache' = cache
            /\ InsertStep(w) =>
                  /\ cache \subseteq cache'
                  /\ Cardinality(cache' \ cache) =
                        (IF calls'[w].pc = "returned" THEN 1 ELSE 0)
       /\ PurgeStep => cache' \subseteq cache
       /\ cache' # cache => (PurgeStep \/ \E w \in Workers : InsertStep(w))]_vars

\* A hit on a row of an earlier day, the row still as it was inserted.
C25_Witness ==
    \E w \in Workers :
        /\ calls[w].pc = "returned"
        /\ calls[w].cached # {}
        /\ calls[w].cached \subseteq cache
        /\ \E r \in calls[w].cached : r.created_at < now

\* C26: every translate_content call whose provider call has succeeded
\* returns the translation to its caller (HTTP 200 from /translate), also
\* when another call has inserted the row of the key first.
C26_LostRaceStillReturns ==
    \A w \in Workers :
        (calls[w].pc \in {"returned", "raised"} /\ calls[w].translated # NoText) =>
            /\ calls[w].pc = "returned"
            /\ calls[w].result = calls[w].translated
            /\ TranslateStatus(calls[w]) = 200

\* C28: translate_batch serves its items in input order, one translation
\* per item: translations[k] is what the translate_content call for
\* contents[k] returned. An item whose content an earlier item of the batch
\* had is served from the cache, with no provider call, and gets the text
\* the earlier item got (so the provider is called at most once for the
\* content). When the call of an item raises, translate_batch raises: it
\* calls translate_content for no further item and returns no list.
C28_BatchInOrderOneProviderCall ==
    tbatch.pc # "idle" =>
        /\ Len(tbatch.translations) = tbatch.i
        /\ Len(tbatch.served) = tbatch.i
        /\ tbatch.i <= Len(tbatch.contents)
        /\ \A k \in 1..tbatch.i :
              /\ tbatch.served[k].content = tbatch.contents[k]
              /\ tbatch.served[k].target_lang = tbatch.target_lang
              /\ tbatch.translations[k] = tbatch.served[k].result
              /\ tbatch.served[k].provider_calls <= 1
        /\ \A j, k \in 1..tbatch.i :
              (j < k /\ tbatch.contents[j] = tbatch.contents[k]) =>
                  /\ tbatch.served[k].hit
                  /\ tbatch.served[k].provider_calls = 0
                  /\ tbatch.translations[k] = tbatch.translations[j]
        /\ (/\ calls[BatchWorker].pc # "idle"
            /\ \E j \in 1..tbatch.i : tbatch.contents[j] = calls[BatchWorker].content)
              => (calls[BatchWorker].cached # {} /\ calls[BatchWorker].provider_calls = 0)
        /\ tbatch.pc = "returned" => tbatch.i = Len(tbatch.contents)
        /\ tbatch.pc = "raised" =>
              (tbatch.i < Len(tbatch.contents) /\ calls[BatchWorker].pc = "idle")

\* A batch of one content twice has returned: the first item called the
\* provider, the second was served from the cache.
C28_Witness ==
    /\ tbatch.pc = "returned"
    /\ Len(tbatch.contents) = 2
    /\ tbatch.contents[1] = tbatch.contents[2]
    /\ tbatch.served[1].provider_calls = 1
    /\ tbatch.served[2].hit
    /\ tbatch.translations[2] = tbatch.translations[1]

----------------------------------------------------------------------------
(* Properties of error handling.                                            *)

\* The provider's output is what suggest_exercises asks for: a JSON object
\* whose "exercises" is a list.
WellFormedExercises(content) ==
    /\ content.parses
    /\ content.kind = "object"
    /\ content.has_exercises
    /\ content.exercises[1] = "array"

\* C17: suggest_exercises never raises, and returns the empty list whenever
\* the provider call fails or the provider's output is malformed: text that
\* is not JSON, a JSON value that is not an object, an object without the key
\* "exercises", or an "exercises" value that is not a list.
C17_MalformedGivesEmptyList ==
    pers.op = "suggest_exercises" =>
        /\ pers.pc # "raised"
        /\ (pers.pc = "returned" /\ pers.provider_failed) => pers.result = EmptyList
        /\ (pers.pc = "returned" /\ pers.has_content /\ ~WellFormedExercises(pers.content))
              => pers.result = EmptyList

\* C18: no operation other than suggest_exercises returns to its caller after
\* its provider call has failed: the failure leaves the operation as an error.
C18_FailureSurfaces ==
    (pers.op \in {"personalize_content", "generate_learning_path"} /\ pers.provider_failed)
        => pers.pc # "returned"

\* C19: when OPENAI_API_KEY or QDRANT_URL is not set at startup, the process
\* still starts, and the features that do not depend on the setting
\* (authentication, progress tracking) are served.
C19_OnlyAffectedFeatureFails ==
    (~boot.env.openai_api_key \/ ~boot.env.qdrant_url) =>
        /\ boot.pc # "crashed"
        /\ boot.request.feature \in {"auth", "progress"} => boot.request.served

RECURSIVE CountKind(_, _)
CountKind(outcomes, kind) ==
    IF outcomes = <<>> THEN 0
    ELSE (IF Head(outcomes).kind = kind THEN 1 ELSE 0) + CountKind(Tail(outcomes), kind)

RECURSIVE SumChunks(_)
SumChunks(outcomes) ==
    IF outcomes = <<>> THEN 0
    ELSE Head(outcomes).num_chunks + SumChunks(Tail(outcomes))

\* C20: embed_all_chapters never stops at a file that fails: the files are
\* attempted one after the other, a failure is counted and the next file is
\* processed, and at the summary successful + failed + skipped-as-too-short
\* is the number of files found while total_chunks is the sum of the counts
\* embed_content returned for the successful files.
C20_BatchCountsEveryFile ==
    /\ batch.pc \in {"loop", "done"} =>
          /\ Len(batch.outcomes) = batch.i
          /\ batch.successful = CountKind(batch.outcomes, "ok")
          /\ batch.failed = CountKind(batch.outcomes, "failed")
          /\ batch.total_chunks = SumChunks(batch.outcomes)
    /\ batch.pc = "done" =>
          /\ Len(batch.outcomes) = Len(batch.md_files)
          /\ batch.successful + batch.failed + CountKind(batch.outcomes, "skipped")
                = Len(batch.md_files)

\* A run that ended after a failed file was followed by a successful one.
C20_Witness ==
    /\ batch.pc = "done"
    /\ Len(batch.outcomes) >= 2
    /\ batch.outcomes[1].kind = "failed"
    /\ batch.outcomes[2].kind = "ok"
    /\ batch.total_chunks = batch.outcomes[2].num_chunks

----------------------------------------------------------------------------
(* Properties of the sessions.                                              *)

\* C29: no step sets an inactive session back to active; a token that a
\* signout or an expiry check has invalidated stays the token of an inactive
\* session; every verify_token that starts after the invalidation of its
\* token fails with 401, whatever signup, signin, signout and verify_token
\* calls came in between; and a verify_token succeeds only when the session
\* it found was active, has not expired and is owned by an active user.
C29_InvalidatedTokenStaysInvalid ==
    /\ [][/\ \A s \in sessions, s2 \in sessions' :
                (s2.token = s.token /\ ~s.is_active) => ~s2.is_active
          /\ (verify.pc # "returned" /\ verify'.pc = "returned") =>
                \E s \in verify.session :
                    /\ s.token = verify.token
                    /\ s.is_active
                    /\ ~(s.expires_at < clock)
                    /\ \E u \in users : u.id = s.user_id /\ u.is_active]_vars
    /\ [](/\ \A s \in sessions : s.token \in invalidated => ~s.is_active
          /\ verify.after_invalidation => (verify.pc = "raised" /\ verify.status = 401)
          /\ verify.pc = "raised" => verify.status = 401
          /\ verify.pc = "returned" => verify.status = 200)

\* A verify_token for the token of a session that an earlier verify_token
\* found expired has failed, the user holding a newer, active session.
C29_Witness ==
    /\ verify.pc = "raised"
    /\ verify.after_invalidation
    /\ \E s, s2 \in sessions :
          /\ s.token = verify.token
          /\ s.expires_at < clock
          /\ s2.user_id = s.user_id
          /\ s2.is_active
          /\ ~(s2.expires_at < clock)

----------------------------------------------------------------------------
(* Properties of the progress records.                                      *)

\* C30: once the concurrent update_progress calls have ended, every key has
\* at most one record, and the record's time_spent_seconds is the sum of the
\* seconds of the updates committed to the key.
C30_OneRecordWithSummedTime ==
    (\A w \in Workers : pcall[w].pc = "idle") =>
        \A key \in ProgressKeys :
            /\ Cardinality(RowsOf(progress, key)) <= 1
            /\ \A r \in RowsOf(progress, key) : r.time_spent_seconds = applied[key]

\* As long as no two calls have run at the same time, the records are right.
ProgressRightWithoutOverlap ==
    ~overlapped =>
        \A key \in ProgressKeys :
            /\ Cardinality(RowsOf(progress, key)) <= 1
            /\ \A r \in RowsOf(progress, key) :
                  (\A w \in Workers : pcall[w].pc = "idle") =>
                      r.time_spent_seconds = applied[key]

============================================================================
